---- MODULE Spec2Model ----
(***************************************************************************)
(* Multi-agent code review: the vote ledger with its four consensus        *)
(* policies (scripts/multi_agent_review/consensus.py) and the three-phase  *)
(* conversation orchestrator (scripts/multi_agent_review/conversation.py). *)
(*                                                                         *)
(* Numbers.  A confidence is a Python float in [0,1]; the model keeps it   *)
(* in tenths (7 stands for 0.7).  A role weight is kept in tenths too (15  *)
(* stands for 1.5).  The weighted policy compares the floats it computes,  *)
(* so its products, sums and quotients are modelled as binary64 values     *)
(* with their rounding (see the float section).  A mean confidence, which  *)
(* the code only reports, is the exact fraction [num, den].                *)
(*                                                                         *)
(* Text.  Strings are TLA+ strings; a Python slice s[:n] is Prefix(s, n).  *)
(* A formatted multi-line text is the sequence of its lines.  Emoji are    *)
(* left out of the formatted lines.                                        *)
(***************************************************************************)
EXTENDS Integers, Sequences, FiniteSets, TLC

VARIABLES
    method,         \* ConsensusManager.method
    max_rounds,     \* ConsensusManager.max_rounds
    votes,          \* ConsensusManager.votes: the ledger, a list of AgentVote
    rounds,         \* ConsensusManager.rounds
    ret,            \* the value returned by the last call on the public API
    agents,         \* ConversationOrchestrator.agents: the roster of agent names
    conversation,   \* ConversationOrchestrator.conversation
    analyses,       \* ConversationOrchestrator.analyses: ordered dict name -> CodeAnalysis
    log,            \* the ConversationLog of the running or last review_code
    pc,             \* position inside review_code / quick_review
    idx,            \* position of the `for agent in self.agents` loop
    round_num,      \* review_code's local round_num
    shown,          \* the transcript handed to the agent called last
    llm_client,     \* ConversationOrchestrator.llm_client, shared by its agents
    calls,          \* the calls made on the agents since the review began
    peer,           \* a second orchestrator with its own ConsensusManager, not running
    wrapper,        \* term_sdk: the call of a function decorated by with_retry
    harness         \* term_sdk: a Harness, its stdin and stdout, and its run

vars == <<method, max_rounds, votes, rounds, ret, agents, conversation,
          analyses, log, pc, idx, round_num, shown, llm_client, calls, peer,
          wrapper, harness>>

cmVars == <<method, max_rounds, votes, rounds>>
orchVars == <<agents, conversation, analyses, log, pc, idx, round_num, shown,
              llm_client, calls, peer, wrapper, harness>>

----------------------------------------------------------------------------
(* Value types: agents/base.py, consensus.py                               *)

APPROVE == "APPROVE"
REJECT == "REJECT"
NEEDS_DISCUSSION == "NEEDS_DISCUSSION"

ReviewVerdict == {APPROVE, REJECT, NEEDS_DISCUSSION}

\* The key order of the dict literals verdict_counts and weighted_scores.
VerdictOrder == <<APPROVE, REJECT, NEEDS_DISCUSSION>>

None == "None"

MAJORITY == "majority"
UNANIMOUS == "unanimous"
WEIGHTED == "weighted"
SECURITY_VETO == "security_veto"

ConsensusMethod == {MAJORITY, UNANIMOUS, WEIGHTED, SECURITY_VETO}

SecurityAuditor == "SecurityAuditor"
CodeQualityReviewer == "CodeQualityReviewer"
RuleComplianceVerifier == "RuleComplianceVerifier"
CustomAgent == "CustomAgent"

\* self.max_rounds = 3 in ConsensusManager.__init__
DefaultMaxRounds == 3

\* security_vote.confidence >= 0.7, in tenths
VetoConfidence == 7

\* v.rationale[:100] in the majority dissent line
DissentRationaleLen == 100

\* ROLE_WEIGHTS.get(agent_name, 1.0), in tenths
ROLE_WEIGHTS(agent_name) ==
    CASE agent_name = SecurityAuditor -> 15
      [] agent_name = RuleComplianceVerifier -> 13
      [] agent_name = CodeQualityReviewer -> 10
      [] OTHER -> 10

\* Python s[:n] on a string or a list
Prefix(s, n) == IF Len(s) <= n THEN s ELSE SubSeq(s, 1, n)

\* An exact fraction num/den (den > 0)
Rat(n, d) == [num |-> n, den |-> d]
RatEq(a, b) == a.num * b.den = b.num * a.den

----------------------------------------------------------------------------
(* Python floats (IEEE-754 binary64, round to nearest, ties to even) of the *)
(* weighted policy.  A float that lies within rounding error of a whole     *)
(* number of hundredths is the record [h, f]: its value is exactly          *)
(* h/100 + f * 2^-56 / 25, with f a small integer.  Confidences and role    *)
(* weights are literals in tenths, so every product and every sum of        *)
(* products has that form.                                                   *)

Float(h, f) == [h |-> h, f |-> f]

FloatZero == Float(0, 0)

Sgn(x) == IF x > 0 THEN 1 ELSE IF x < 0 THEN -1 ELSE 0

RECURSIVE Pow2(_)
Pow2(k) == IF k = 0 THEN 1 ELSE 2 * Pow2(k - 1)

\* 2^n modulo m, by repeated squaring
RECURSIVE Pow2Mod(_, _)
Pow2Mod(n, m) ==
    IF n = 0 THEN 1 % m
    ELSE CHOOSE r \in {(((half * half) % m) * (IF n % 2 = 1 THEN 2 ELSE 1)) % m :
                           half \in {Pow2Mod(n \div 2, m)}} : TRUE

\* a/b = 2^k, for a, b > 0
EqPow2(a, b, k) == IF k >= 0 THEN a = b * Pow2(k) ELSE a * Pow2(-k) = b

\* floor(log2(a/b)) for a >= b > 0 and for 0 < a < b
RECURSIVE IlogUp(_, _)
IlogUp(a, b) == IF a >= 2 * b THEN 1 + IlogUp(a, 2 * b) ELSE 0

RECURSIVE IlogDown(_, _)
IlogDown(a, b) == IF a >= b THEN 0 ELSE IlogDown(2 * a, b) - 1

\* floor(log2(a/b)): the binary exponent of a/b
Ilog(a, b) == IF a >= b THEN IlogUp(a, b) ELSE IlogDown(a, b)

\* num/den rounded to the nearest integer; a value halfway between two
\* integers goes to the one that makes the significand even (baseOdd tells
\* whether the significand under integer 0 is odd), unless a remainder of
\* sign s, too small to show in num/den, breaks the tie.
NearestEven(num, den, s, baseOdd) ==
    CHOOSE j \in {IF (2 * a + b) % (2 * b) = 0
                     /\ (s < 0 \/ (s = 0 /\ (o = (((2 * a + b) \div (2 * b)) % 2 = 0))))
                  THEN ((2 * a + b) \div (2 * b)) - 1
                  ELSE (2 * a + b) \div (2 * b) :
                      a \in {num}, b \in {den}, o \in {baseOdd}} : TRUE

\* The binary exponent of a real number that is a/b (k0 = Ilog(a, b)) moved
\* by a small amount, downwards when `below`.
Binade(a, b, below, k0) == IF EqPow2(a, b, k0) /\ below THEN k0 - 1 ELSE k0

\* FloatRound on the grid of one binade: floats are 25 * G units apart and
\* h/100 lies G * m25 units above one of them.
FloatRoundGrid(h, n, d, s, G, m25, baseOdd) ==
    Float(h, 25 * G * NearestEven(d * G * m25 + n, d * 25 * G, s, baseOdd) - G * m25)

\* FloatRound in the binade of exponent k
FloatRoundBinade(h, n, d, s, k) ==
    FloatRoundGrid(h, n, d, s, Pow2(k + 4), (h * Pow2Mod(50 - k, 25)) % 25,
                   (h * Pow2Mod(50 - k, 50)) % 50 >= 25)

\* The float nearest to the real number h/100 + (n/d) * 2^-56/25 + e, where
\* e is a remainder far smaller than 1/d units whose sign is s.  In the binade
\* of exponent k floats are 25 * 2^(k+4) units apart, and a value halfway
\* between two floats goes to the even one.
FloatRound(h, n, d, s) ==
    IF h = 0 /\ n = 0 THEN FloatZero
    ELSE CHOOSE x \in {FloatRoundBinade(h, n, d, s, k) :
                           k \in {Binade(h, 100, n < 0 \/ (n = 0 /\ s < 0), Ilog(h, 100))}} :
             TRUE

\* the float of a decimal literal given in tenths (0.6, 1.5, ...)
FloatOfTenths(t) == FloatRound(10 * t, 0, 1, 0)

\* x * y for the floats x, y of the literals c, r in tenths
FloatMulOf(c, r, x, y) == FloatRound(c * r, c * y.f + r * x.f, 10, Sgn(x.f * y.f))

\* x * y for two floats given by their literals in tenths
FloatMul(c, r) == FloatMulOf(c, r, FloatOfTenths(c), FloatOfTenths(r))

\* x + y (the operands are evaluated once, as a and b)
FloatAdd(x, y) ==
    CHOOSE sum \in {FloatRound(a.h + b.h, a.f + b.f, 1, 0) : a \in {x}, b \in {y}} : TRUE

\* x > y
FloatGT(x, y) == x.h > y.h \/ (x.h = y.h /\ x.f > y.f)

\* The float w / t is the record [h, hT, e, m]: e is its binary exponent and
\* its 53-bit significand is floor((h / hT) * 2^(52 - e)) + m.
Quotient(h, hT, e, m) == [h |-> h, hT |-> hT, e |-> e, m |-> m]

QuotientZero == Quotient(0, 1, 0, 0)

\* A quotient whose rounding reached the next power of two is written in
\* that binade.
FloatDivNormal(h, hT, e0, e, m) ==
    IF e < e0 /\ m = 0 THEN Quotient(h, hT, e0, 0) ELSE Quotient(h, hT, e, m)

\* The quotient in the binade of exponent e.  The real quotient scaled by
\* 2^(52 - e) is floor((h / hT) * 2^(52 - e)) + Yn/Yd + a remainder of sign
\* sg far smaller than 1/Yd; m is Yn/Yd rounded to the nearest integer, ties
\* to even.
FloatDivBinade(h, hT, c, sg, e0, e) ==
    LET r == (h * Pow2Mod(52 - e, hT)) % hT
        baseOdd == (h * Pow2Mod(52 - e, 2 * hT)) % (2 * hT) >= hT
        p == IF -2 - e > 0 THEN -2 - e ELSE 0
        q == IF 2 + e > 0 THEN 2 + e ELSE 0
    IN FloatDivNormal(h, hT, e0, e,
                      NearestEven(r * hT * Pow2(q) + c * Pow2(p), hT * hT * Pow2(q),
                                  sg, baseOdd))

\* The quotient of w by t, c = w.f * t.h - t.f * w.h being the sign of the
\* difference between w / t and the ratio w.h / t.h
FloatDivCross(w, t, c, e0) ==
    CHOOSE q \in {FloatDivBinade(w.h, t.h, c, -Sgn(c) * Sgn(t.f), e0, e) :
                      e \in {Binade(w.h, t.h, c < 0, e0)}} : TRUE

\* a / b for b > 0
FloatDivOf(a, b) ==
    IF a = FloatZero THEN QuotientZero
    ELSE FloatDivCross(a, b, a.f * b.h - b.f * a.h, Ilog(a.h, b.h))

\* w / t for t > 0 (the operands are evaluated once, as a and b)
FloatDiv(w, t) == CHOOSE q \in {FloatDivOf(a, b) : a \in {w}, b \in {t}} : TRUE

\* The distance of a quotient from the real ratio h/hT, in half units in the
\* last place of the ratio's own binade.
QuotientOffset(a) == IF a.e = Ilog(a.h, a.hT) THEN 2 * a.m ELSE a.m

\* a > b for two quotients by the same divisor
QuotientGT(a, b) ==
    IF a.h = 0 \/ b.h = 0 THEN a.h # 0 /\ b.h = 0
    ELSE IF a.h # b.h THEN a.h > b.h
    ELSE QuotientOffset(a) > QuotientOffset(b)

\* a > 0.5
AboveHalf(a) ==
    IF a.h = 0 THEN FALSE
    ELSE IF 2 * a.h # a.hT THEN 2 * a.h > a.hT
    ELSE QuotientOffset(a) > 0

AgentVote(agent_name, verdict, confidence, rationale) ==
    [agent_name |-> agent_name,
     verdict |-> verdict,
     confidence |-> confidence,
     role_weight |-> ROLE_WEIGHTS(agent_name),
     rationale |-> rationale]

----------------------------------------------------------------------------
(* ConsensusManager: consensus.py                                          *)

\* Variant: the new vote is appended and the agent's previous vote is kept.
add_vote_AppendOnly(vs, agent_name, verdict, confidence, rationale) ==
    Append(vs, AgentVote(agent_name, verdict, confidence, rationale))

\* Variant: a re-vote replaces the agent's vote where it stands in the ledger.
add_vote_InPlace(vs, agent_name, verdict, confidence, rationale) ==
    IF \E i \in DOMAIN vs : vs[i].agent_name = agent_name
    THEN [i \in DOMAIN vs |-> IF vs[i].agent_name = agent_name
                              THEN AgentVote(agent_name, verdict, confidence, rationale)
                              ELSE vs[i]]
    ELSE Append(vs, AgentVote(agent_name, verdict, confidence, rationale))

\* add_vote: drop the previous vote of the same agent, append the new one.
add_vote(vs, agent_name, verdict, confidence, rationale) ==
    Append(SelectSeq(vs, LAMBDA v : v.agent_name # agent_name),
           AgentVote(agent_name, verdict, confidence, rationale))

\* d[k] = v on an insertion-ordered Python dict, kept as a list of entries.
DictPut(d, k, v) ==
    IF \E i \in DOMAIN d : d[i].key = k
    THEN [i \in DOMAIN d |-> IF d[i].key = k THEN [key |-> k, val |-> v] ELSE d[i]]
    ELSE Append(d, [key |-> k, val |-> v])

\* {v.agent_name: v.verdict for v in self.votes}
VoteBreakdown(vs) ==
    LET f[i \in 0..Len(vs)] ==
            IF i = 0 THEN <<>> ELSE DictPut(f[i - 1], vs[i].agent_name, vs[i].verdict)
    IN f[Len(vs)]

\* {v.agent_name: v.confidence for v in self.votes}
ConfidenceScores(vs) ==
    LET f[i \in 0..Len(vs)] ==
            IF i = 0 THEN <<>> ELSE DictPut(f[i - 1], vs[i].agent_name, vs[i].confidence)
    IN f[Len(vs)]

\* sum(v.confidence for v in vs), in tenths
SumConfidence(vs) ==
    LET f[i \in 0..Len(vs)] == IF i = 0 THEN 0 ELSE f[i - 1] + vs[i].confidence
    IN f[Len(vs)]

\* sum of the dict's values
SumValues(d) ==
    LET f[i \in 0..Len(d)] == IF i = 0 THEN 0 ELSE f[i - 1] + d[i].val
    IN f[Len(d)]

\* confidence * role_weight for every confidence in tenths of [0, 1] and
\* every weight of the table
WeightProducts ==
    [c \in 0..10 |-> [r \in {ROLE_WEIGHTS(a) : a \in {SecurityAuditor,
                                  RuleComplianceVerifier, CodeQualityReviewer, ""}}
                         |-> FloatMul(c, r)]]

\* weight = vote.confidence * vote.role_weight
VoteWeight(v) == WeightProducts[v.confidence][v.role_weight]

\* weighted_scores[verdict] after the loop over self.votes: 0.0, then
\* += weight for every vote of that verdict, in ledger order; weights[i] is
\* the weight of vs[i]
WeightOf(vs, weights, verdict) ==
    LET f[i \in 0..Len(vs)] ==
            IF i = 0 THEN FloatZero
            ELSE IF vs[i].verdict = verdict THEN FloatAdd(f[i - 1], weights[i])
            ELSE f[i - 1]
    IN f[Len(vs)]

\* Variant: total_weight leaves out the weight of the first vote.
TotalWeight_SkipFirst(weights) ==
    LET f[i \in 0..Len(weights)] ==
            IF i <= 1 THEN FloatZero ELSE FloatAdd(f[i - 1], weights[i])
    IN f[Len(weights)]

\* total_weight after the loop: 0.0, then += weight for every vote
TotalWeight(weights) ==
    LET f[i \in 0..Len(weights)] ==
            IF i = 0 THEN FloatZero ELSE FloatAdd(f[i - 1], weights[i])
    IN f[Len(weights)]

\* f"{x:.0%}" of a confidence in tenths
FormatPercent(confidence) == ToString(confidence * 10) \o "%"

\* a number of hundredths written with two decimals
FormatHundredths(n) ==
    ToString(n \div 100) \o "." \o (IF n % 100 < 10 THEN "0" ELSE "") \o ToString(n % 100)

\* f"{x:.2f}" of a weight: a float within rounding error of h hundredths
FormatWeight2(x) == FormatHundredths(x.h)

\* f"{x:.2f}" of a quotient: the hundredth nearest to the float's exact value,
\* the even one when the float is exactly halfway.  Only when the ratio h/hT
\* is itself halfway between two hundredths does the rounding of the
\* division decide.
FormatFixed2(a) ==
    IF a.h = 0 THEN FormatHundredths(0)
    ELSE LET t2 == 200 * a.h
             j == ((t2 \div a.hT) - 1) \div 2
             exact == (a.h * Pow2Mod(52 - Ilog(a.h, a.hT), a.hT)) % a.hT = 0
             o == QuotientOffset(a)
         IN IF t2 % a.hT = 0 /\ (t2 \div a.hT) % 2 = 1
            THEN IF exact
                 THEN FormatHundredths(IF o > 0 \/ (o = 0 /\ j % 2 = 1)
                                       THEN j + 1 ELSE j)
                 ELSE FormatHundredths(IF a.m >= 1 THEN j + 1 ELSE j)
            ELSE FormatHundredths((t2 + a.hT) \div (2 * a.hT))

\* _generate_summary: the lines of the human-readable summary
GenerateSummary(vs, rnds, mth, final_verdict, vote_breakdown, consensus_reached) ==
    LET first(agent) == CHOOSE i \in DOMAIN vs :
                            /\ vs[i].agent_name = agent
                            /\ \A j \in DOMAIN vs : vs[j].agent_name = agent => i <= j
        line(e) == "- **" \o e.key \o "**: " \o e.val \o " (confidence: "
                       \o FormatPercent(vs[first(e.key)].confidence) \o ")"
    IN <<"## Consensus Decision: " \o final_verdict,
         "",
         "**Consensus Reached:** " \o (IF consensus_reached THEN "Yes" ELSE "No"),
         "**Rounds:** " \o ToString(rnds),
         "**Method:** " \o mth,
         "",
         "### Vote Breakdown:">>
       \o [i \in DOMAIN vote_breakdown |-> line(vote_breakdown[i])]

ConsensusResult(final_verdict, consensus_reached, vote_breakdown, confidence_scores, total_confidence, rounds_taken, dissenting_opinions, summary) ==
    [final_verdict |-> final_verdict,
     consensus_reached |-> consensus_reached,
     vote_breakdown |-> vote_breakdown,
     confidence_scores |-> confidence_scores,
     total_confidence |-> total_confidence,
     rounds_taken |-> rounds_taken,
     dissenting_opinions |-> dissenting_opinions,
     summary |-> summary]

\* One entry of dissenting_opinions: f"{agent}: {verdict}" followed by a detail
\* (the majority policy adds the rationale, the weighted policy the weight).
Dissent(agent_name, verdict, detail) ==
    [agent_name |-> agent_name, verdict |-> verdict, detail |-> detail]

\* Variant: every vote is listed as a dissenting opinion.
Dissenters_All(vs, final_verdict) == vs

\* [... for v in self.votes if v.verdict != final_verdict]
Dissenters(vs, final_verdict) == SelectSeq(vs, LAMBDA v : v.verdict # final_verdict)

\* Variant: half of the votes, rounded up, is enough.
MajorityNeeded_Half(total) == (total + 1) \div 2

\* majority_needed = total // 2 + 1
MajorityNeeded(total) == (total \div 2) + 1

\* _majority_consensus
MajorityConsensus(vs, rnds, mth, vote_breakdown, confidence_scores) ==
    LET count(verdict) == Cardinality({i \in DOMAIN vote_breakdown :
                                           vote_breakdown[i].val = verdict})
        total == Len(vote_breakdown)
        majority_needed == MajorityNeeded(total)
        hits == {k \in DOMAIN VerdictOrder : count(VerdictOrder[k]) >= majority_needed}
        first_hit == CHOOSE k \in hits : \A j \in hits : k <= j
        consensus_reached == hits # {}
        final_verdict == IF hits # {} THEN VerdictOrder[first_hit] ELSE NEEDS_DISCUSSION
        agreeing == SelectSeq(vs, LAMBDA v : v.verdict = final_verdict)
        total_confidence == IF Len(agreeing) > 0
                            THEN Rat(SumConfidence(agreeing), 10 * Len(agreeing))
                            ELSE Rat(0, 1)
        others == Dissenters(vs, final_verdict)
        dissenting == [i \in DOMAIN others |->
                          Dissent(others[i].agent_name, others[i].verdict,
                                  "(" \o Prefix(others[i].rationale, DissentRationaleLen)
                                      \o "...)")]
    IN ConsensusResult(final_verdict, consensus_reached, vote_breakdown,
                       confidence_scores, total_confidence, rnds, dissenting,
                       GenerateSummary(vs, rnds, mth, final_verdict, vote_breakdown,
                                       consensus_reached))

\* Variant: two different verdicts still count as agreement.
IsUnanimous_UpToTwo(vote_breakdown) ==
    Cardinality({vote_breakdown[i].val : i \in DOMAIN vote_breakdown}) <= 2

\* len(set(vote_breakdown.values())) == 1
IsUnanimous(vote_breakdown) ==
    Cardinality({vote_breakdown[i].val : i \in DOMAIN vote_breakdown}) = 1

\* _unanimous_consensus
UnanimousConsensus(vs, rnds, mth, vote_breakdown, confidence_scores) ==
    LET consensus_reached == IsUnanimous(vote_breakdown)
        final_verdict == IF consensus_reached THEN vote_breakdown[1].val
                         ELSE NEEDS_DISCUSSION
        total_confidence == IF consensus_reached
                            THEN Rat(SumValues(confidence_scores),
                                     10 * Len(confidence_scores))
                            ELSE Rat(5, 10)
        dissenting == IF consensus_reached THEN <<>>
                      ELSE [i \in DOMAIN vote_breakdown |->
                               Dissent(vote_breakdown[i].key, vote_breakdown[i].val, "")]
    IN ConsensusResult(final_verdict, consensus_reached, vote_breakdown,
                       confidence_scores, total_confidence, rnds, dissenting,
                       GenerateSummary(vs, rnds, mth, final_verdict, vote_breakdown,
                                       consensus_reached))

\* The normalisation: weighted_scores[k] /= total_weight when
\* total_weight > 0, else the untouched sums.
NormalisedScoresOf(vs, weights, t) ==
    [k \in DOMAIN VerdictOrder |->
        IF FloatGT(t, FloatZero)
        THEN FloatDiv(WeightOf(vs, weights, VerdictOrder[k]), t)
        ELSE QuotientZero]

NormalisedScores(vs, weights, total_weight) ==
    CHOOSE scores \in {NormalisedScoresOf(vs, weights, t) : t \in {total_weight}} : TRUE

\* weighted_scores for the weights of the votes, in ledger order
ScoresOfWeights(vs, weights) ==
    CHOOSE scores \in {NormalisedScores(vs, w, TotalWeight(w)) : w \in {weights}} : TRUE

\* weighted_scores after the loop and the normalisation, in key order
WeightedScores(vs) == ScoresOfWeights(vs, [i \in DOMAIN vs |-> VoteWeight(vs[i])])

\* Variant: among equal top scores the last key of the dict wins.
WeightedWinner_Last(weighted_scores) ==
    LET best == {k \in DOMAIN VerdictOrder :
                    \A j \in DOMAIN VerdictOrder :
                        ~QuotientGT(weighted_scores[j], weighted_scores[k])}
    IN CHOOSE k \in best : \A j \in best : k >= j

\* max(weighted_scores, key=weighted_scores.get): the first key, in dict
\* order, whose score no other key exceeds.
WeightedWinner(weighted_scores) ==
    LET best == {k \in DOMAIN VerdictOrder :
                    \A j \in DOMAIN VerdictOrder :
                        ~QuotientGT(weighted_scores[j], weighted_scores[k])}
    IN CHOOSE k \in best : \A j \in best : k <= j

\* _weighted_consensus from the winning key on
WeightedDecision(vs, rnds, mth, vote_breakdown, confidence_scores, weighted_scores, winner) ==
    LET final_verdict == VerdictOrder[winner]
        winning_score == weighted_scores[winner]
        consensus_reached == AboveHalf(winning_score)
        others == Dissenters(vs, final_verdict)
        dissenting == [i \in DOMAIN others |->
                          Dissent(others[i].agent_name, others[i].verdict,
                                  "(weight: " \o FormatWeight2(VoteWeight(others[i]))
                                              \o ")")]
        summary == Append(GenerateSummary(vs, rnds, mth, final_verdict, vote_breakdown,
                                          consensus_reached),
                          "Weighted scores: APPROVE="
                              \o FormatFixed2(weighted_scores[1])
                              \o ", REJECT="
                              \o FormatFixed2(weighted_scores[2]))
    IN ConsensusResult(final_verdict, consensus_reached, vote_breakdown,
                       confidence_scores, winning_score, rnds, dissenting, summary)

\* _weighted_consensus from the normalised scores on
WeightedTally(vs, rnds, mth, vote_breakdown, confidence_scores, weighted_scores) ==
    CHOOSE result \in {WeightedDecision(vs, rnds, mth, vote_breakdown, confidence_scores,
                                        weighted_scores, winner) :
                           winner \in {WeightedWinner(weighted_scores)}} : TRUE

\* _weighted_consensus
WeightedConsensus(vs, rnds, mth, vote_breakdown, confidence_scores) ==
    CHOOSE result \in {WeightedTally(vs, rnds, mth, vote_breakdown, confidence_scores,
                                     weighted_scores) :
                           weighted_scores \in {WeightedScores(vs)}} : TRUE

\* Variant: the veto needs a confidence strictly above 0.7.
SecurityVetoApplies_Strict(vs) ==
    \E i \in DOMAIN vs :
        /\ vs[i].agent_name = SecurityAuditor
        /\ vs[i].verdict = REJECT
        /\ vs[i].confidence > VetoConfidence

\* Variant: any Reject of the SecurityAuditor is a veto, whatever its confidence.
SecurityVetoApplies_AnyConfidence(vs) ==
    \E i \in DOMAIN vs :
        /\ vs[i].agent_name = SecurityAuditor
        /\ vs[i].verdict = REJECT

\* The veto test of _security_veto_consensus: the first vote by the agent
\* named SecurityAuditor is a Reject with confidence >= 0.7.
SecurityVetoApplies(vs) ==
    /\ \E i \in DOMAIN vs : vs[i].agent_name = SecurityAuditor
    /\ LET i == CHOOSE k \in DOMAIN vs :
                    /\ vs[k].agent_name = SecurityAuditor
                    /\ \A j \in DOMAIN vs : vs[j].agent_name = SecurityAuditor => k <= j
       IN /\ vs[i].verdict = REJECT
          /\ vs[i].confidence >= VetoConfidence

\* _security_veto_consensus
SecurityVetoConsensus(vs, rnds, mth, vote_breakdown, confidence_scores) ==
    IF SecurityVetoApplies(vs)
    THEN LET i == CHOOSE k \in DOMAIN vs :
                      /\ vs[k].agent_name = SecurityAuditor
                      /\ \A j \in DOMAIN vs : vs[j].agent_name = SecurityAuditor => k <= j
             security_vote == vs[i]
             others == SelectSeq(vs, LAMBDA v : v.verdict # REJECT)
         IN ConsensusResult(REJECT, TRUE, vote_breakdown, confidence_scores,
                            Rat(security_vote.confidence, 10), rnds,
                            [k \in DOMAIN others |->
                                Dissent(others[k].agent_name, others[k].verdict, "")],
                            <<"SECURITY VETO: " \o
                                (IF security_vote.rationale # ""
                                 THEN security_vote.rationale
                                 ELSE "Security concerns identified")>>)
    ELSE WeightedConsensus(vs, rnds, mth, vote_breakdown, confidence_scores)

\* Variant: the empty ledger is handed to the policy like any other.
calculate_consensus_NoEmptyCase(vs, rnds, mth) ==
    CASE mth = UNANIMOUS ->
             UnanimousConsensus(vs, rnds, mth, VoteBreakdown(vs), ConfidenceScores(vs))
      [] mth = WEIGHTED ->
             WeightedConsensus(vs, rnds, mth, VoteBreakdown(vs), ConfidenceScores(vs))
      [] mth = SECURITY_VETO ->
             SecurityVetoConsensus(vs, rnds, mth, VoteBreakdown(vs), ConfidenceScores(vs))
      [] OTHER ->
             MajorityConsensus(vs, rnds, mth, VoteBreakdown(vs), ConfidenceScores(vs))

\* calculate_consensus
calculate_consensus(vs, rnds, mth) ==
    IF vs = <<>>
    THEN ConsensusResult(NEEDS_DISCUSSION, FALSE, <<>>, <<>>, Rat(0, 1), rnds, <<>>,
                         <<"No votes received">>)
    ELSE LET vote_breakdown == VoteBreakdown(vs)
             confidence_scores == ConfidenceScores(vs)
         IN CASE mth = MAJORITY ->
                     MajorityConsensus(vs, rnds, mth, vote_breakdown, confidence_scores)
              [] mth = UNANIMOUS ->
                     UnanimousConsensus(vs, rnds, mth, vote_breakdown, confidence_scores)
              [] mth = WEIGHTED ->
                     WeightedConsensus(vs, rnds, mth, vote_breakdown, confidence_scores)
              [] mth = SECURITY_VETO ->
                     SecurityVetoConsensus(vs, rnds, mth, vote_breakdown, confidence_scores)
              [] OTHER ->
                     MajorityConsensus(vs, rnds, mth, vote_breakdown, confidence_scores)

\* Variant: the round counter may pass max_rounds by one.
should_continue_Late(vs, rnds, maxr, mth) ==
    IF rnds > maxr THEN FALSE
    ELSE ~calculate_consensus(vs, rnds, mth).consensus_reached

\* Variant: only the round counter decides, a consensus does not stop the loop.
should_continue_RoundsOnly(vs, rnds, maxr, mth) == rnds < maxr

\* should_continue
should_continue(vs, rnds, maxr, mth) ==
    IF rnds >= maxr THEN FALSE
    ELSE ~calculate_consensus(vs, rnds, mth).consensus_reached

----------------------------------------------------------------------------
(* Bounds and input sets                                                   *)

\* the largest ledger built through the ConsensusManager API directly
MaxVotes == 3

\* the largest value the round counter is driven to through increment_round
MaxRoundCount == 4

AgentNames == {SecurityAuditor, CodeQualityReviewer, RuleComplianceVerifier, CustomAgent}

LongRationale ==
    "subprocess.run(user_input, shell=True) executes attacker-controlled text; the agent also writes outside its working directory"

Ballot(verdict, confidence, rationale) ==
    [verdict |-> verdict, confidence |-> confidence, rationale |-> rationale]

\* The (verdict, confidence, rationale) arguments add_vote is called with:
\* confidences 0.0, 0.6, 0.7 and 0.9 in tenths; one rationale is longer than
\* the 100 characters the majority dissent line keeps.
Ballots ==
    {Ballot(APPROVE, 6, ""),
     Ballot(REJECT, 9, "eval() on untrusted input"),
     Ballot(REJECT, 7, ""),
     Ballot(REJECT, 0, LongRationale),
     Ballot(NEEDS_DISCUSSION, 6, "")}

\* The arguments of the round-counter harness
RoundNames == {SecurityAuditor, CodeQualityReviewer}
RoundBallots == {Ballot(APPROVE, 6, ""), Ballot(REJECT, 7, "")}

NoLog == [started |-> FALSE]

\* no second orchestrator has been built
NoPeer == [made |-> FALSE]

\* no function decorated by with_retry is in use
NoWrapper == [pc |-> "none"]

\* no Harness has been built
NoHarness == [pc |-> "none"]

Returned(op, value) == [op |-> op, value |-> value]

----------------------------------------------------------------------------
(* A ConsensusManager used on its own through its public methods           *)

InitCM ==
    /\ method \in ConsensusMethod
    /\ max_rounds = DefaultMaxRounds
    /\ votes = <<>>
    /\ rounds = 0
    /\ ret = Returned("__init__", None)
    /\ agents = <<>>
    /\ conversation = <<>>
    /\ analyses = <<>>
    /\ log = NoLog
    /\ pc = "standalone"
    /\ idx = 0
    /\ round_num = 0
    /\ shown = <<>>
    /\ llm_client = None
    /\ calls = <<>>
    /\ peer = NoPeer
    /\ wrapper = NoWrapper
    /\ harness = NoHarness

\* self.consensus.add_vote(agent_name, verdict, confidence, rationale)
AddVoteOf(names, ballots) ==
    \E agent_name \in names, b \in ballots :
        /\ pc = "standalone"
        /\ \/ \E i \in DOMAIN votes : votes[i].agent_name = agent_name
           \/ Len(votes) < MaxVotes
        /\ votes' = add_vote(votes, agent_name, b.verdict, b.confidence, b.rationale)
        /\ ret' = Returned("add_vote", <<agent_name, b.verdict, b.confidence, b.rationale>>)
        /\ UNCHANGED <<method, max_rounds, rounds>>
        /\ UNCHANGED orchVars

AddVote == AddVoteOf(AgentNames, Ballots)

AddRoundVote == AddVoteOf(RoundNames, RoundBallots)

\* Variant: a round counts twice.
increment_round_Twice(n) == n + 2

\* increment_round: self.rounds += 1
increment_round(n) == n + 1

IncrementRound ==
    /\ pc = "standalone"
    /\ rounds < MaxRoundCount
    /\ rounds' = increment_round(rounds)
    /\ ret' = Returned("increment_round", None)
    /\ UNCHANGED <<method, max_rounds, votes>>
    /\ UNCHANGED orchVars

\* the two attributes of the ConsensusManager that reset() writes
Manager == [votes |-> votes, rounds |-> rounds]

\* Variant: reset() empties the ledger and keeps the round counter.
reset_VotesOnly(cm) == [cm EXCEPT !.votes = <<>>]

\* reset: the ledger is emptied and the round counter is 0
reset(cm) == [cm EXCEPT !.votes = <<>>, !.rounds = 0]

Reset ==
    /\ pc = "standalone"
    /\ votes' = reset(Manager).votes
    /\ rounds' = reset(Manager).rounds
    /\ ret' = Returned("reset", None)
    /\ UNCHANGED <<method, max_rounds>>
    /\ UNCHANGED orchVars

CalculateConsensus ==
    /\ pc = "standalone"
    /\ ret' = Returned("calculate_consensus", calculate_consensus(votes, rounds, method))
    /\ UNCHANGED cmVars
    /\ UNCHANGED orchVars

ShouldContinue ==
    /\ pc = "standalone"
    /\ ret' = Returned("should_continue",
                       should_continue(votes, rounds, max_rounds, method))
    /\ UNCHANGED cmVars
    /\ UNCHANGED orchVars

\* The policies on every ledger: votes are cast and the consensus is computed.
NextCM ==
    \/ AddVote
    \/ Reset
    \/ CalculateConsensus

SpecCM == InitCM /\ [][NextCM]_vars

\* The round counter: a few votes, increment_round, should_continue, reset.
NextRounds ==
    \/ AddRoundVote
    \/ IncrementRound
    \/ Reset
    \/ CalculateConsensus
    \/ ShouldContinue

SpecRounds == InitCM /\ [][NextRounds]_vars

----------------------------------------------------------------------------
(* ConversationOrchestrator: conversation.py                               *)

\* the largest max_rounds the orchestrator is constructed with
MaxRounds == 2

\* msg.content[:200], the rationale of a discussion vote
RationaleLen == 200

\* analysis.issues[:2], the issues joined into the rationale of a first vote
RationaleIssues == 2

\* self.agents as built by __init__
DefaultRoster == <<SecurityAuditor, CodeQualityReviewer, RuleComplianceVerifier>>

CodeAnalysis(issues, warnings, positives, verdict, confidence) ==
    [issues |-> issues, warnings |-> warnings, positives |-> positives,
     verdict |-> verdict, confidence |-> confidence]

ReviewMessage(agent_name, content, verdict, in_reply_to) ==
    [agent_name |-> agent_name, content |-> content, verdict |-> verdict,
     in_reply_to |-> in_reply_to]

\* What analyze_code may return (ReviewAgent.analyze_code is abstract): an
\* approval, a rejection at the veto confidence with three issues, a
\* neutral analysis at the dataclass defaults.
AnalysisOutputs ==
    {CodeAnalysis(<<>>, <<>>, <<"Uses official term_sdk">>, APPROVE, 9),
     CodeAnalysis(<<"exec() call", "base64 payload", "network access">>, <<>>, <<>>,
                  REJECT, 7),
     CodeAnalysis(<<>>, <<"no docstrings">>, <<>>, NEEDS_DISCUSSION, 5)}

LongReply ==
    "I maintain my concerns about this submission. The following issues cannot be ignored: the exec() call on a decoded base64 payload, the outbound network access, and the write outside the working directory. REJECT."

\* "; ".join(items)
RECURSIVE Join(_, _)
Join(sep, items) ==
    IF items = <<>> THEN ""
    ELSE IF Len(items) = 1 THEN items[1]
    ELSE items[1] \o sep \o Join(sep, Tail(items))

\* the rationale of a vote registered from an analysis
AnalysisRationale(analysis) ==
    IF analysis.issues # <<>> THEN Join("; ", Prefix(analysis.issues, RationaleIssues))
    ELSE ""

\* Variant: the lookup returns the first entry whatever the key.
DictGet_First(d, k) == d[1].val

\* dict lookup d[k]
DictGet(d, k) == d[CHOOSE i \in DOMAIN d : d[i].key = k].val

\* respond_to_discussion(code, [], analysis): the opening statement
OpeningMessage(agent_name, analysis) ==
    ReviewMessage(agent_name, "Verdict: " \o analysis.verdict, analysis.verdict, None)

\* the author of the last message of the transcript not written by agent_name
LastOther(agent_name, transcript) ==
    LET others == SelectSeq(transcript, LAMBDA m : m.agent_name # agent_name)
    IN IF others = <<>> THEN None ELSE others[Len(others)].agent_name

\* What respond_to_discussion may return in a discussion round
\* (ReviewAgent.respond_to_discussion is abstract): a message without a
\* verdict, or a reply to the last other speaker that approves or rejects.
DiscussionReplies(agent_name, transcript, analysis) ==
    {ReviewMessage(agent_name, "Noted.", None, None),
     ReviewMessage(agent_name, "I have no objection. APPROVE.", APPROVE,
                   LastOther(agent_name, transcript)),
     ReviewMessage(agent_name, LongReply, REJECT, LastOther(agent_name, transcript))}

Init ==
    /\ method \in ConsensusMethod
    /\ max_rounds \in 1..MaxRounds
    /\ votes = <<>>
    /\ rounds = 0
    /\ ret = Returned("__init__", None)
    /\ agents = DefaultRoster
    /\ conversation = <<>>
    /\ analyses = <<>>
    /\ log = NoLog
    /\ pc = "idle"
    /\ idx = 0
    /\ round_num = 0
    /\ shown = <<>>
    /\ llm_client = None
    /\ calls = <<>>
    /\ peer = NoPeer
    /\ wrapper = NoWrapper
    /\ harness = NoHarness

\* One call on an agent: analyze_code(code, filename) or
\* respond_to_discussion(code, conversation, my_analysis)
AgentCall(op, agent_name, my_analysis) ==
    [op |-> op, agent_name |-> agent_name, my_analysis |-> my_analysis]

\* Variant: every turn of a loop over the roster goes to the first agent.
Speaker_First(roster, i) == roster[1]

\* `for agent in self.agents`: the agent of the i-th turn
Speaker(roster, i) == roster[i]

\* Variant: a round shows the Phase-1 messages only.
RoundTranscript_Phase1Only(conv, roster) == Prefix(conv, Len(roster))

\* the transcript argument of a discussion round: self.conversation
RoundTranscript(conv, roster) == conv

\* Variant: a reply is registered whether or not it carries a verdict.
DiscussionVote_Always(vs, agent_name, msg, analysis) ==
    add_vote(vs, agent_name, msg.verdict, analysis.confidence,
             Prefix(msg.content, RationaleLen))

\* `if msg.verdict: self.consensus.add_vote(...)`: the vote of a reply
DiscussionVote(vs, agent_name, msg, analysis) ==
    IF msg.verdict # None
    THEN add_vote(vs, agent_name, msg.verdict, analysis.confidence,
                  Prefix(msg.content, RationaleLen))
    ELSE vs

\* What an agent of the abstract interface may answer: the opening statement
\* to an empty transcript, a discussion reply otherwise.
AgentReplies(agent_name, transcript, analysis) ==
    IF transcript = <<>> THEN {OpeningMessage(agent_name, analysis)}
    ELSE DiscussionReplies(agent_name, transcript, analysis)

\* What analyze_code of an agent of the abstract interface may return
AgentAnalyses(agent_name) == AnalysisOutputs

\* add_agent: a custom agent joins the roster
add_agent(roster, agent_name) == Append(roster, agent_name)

\* review_code up to the first agent: a new log, the transcript, the
\* analyses and the ledger are cleared.  With an empty roster Phase 1 has no
\* turn and the analyses copied into the log are empty.
ReviewCodeBegin ==
    /\ pc = "idle"
    /\ log' = [started |-> TRUE, ended |-> FALSE, messages |-> <<>>,
               analyses |-> <<>>, consensus_result |-> None]
    /\ conversation' = <<>>
    /\ analyses' = <<>>
    /\ votes' = reset(Manager).votes
    /\ rounds' = reset(Manager).rounds
    /\ pc' = IF agents = <<>> THEN "loop" ELSE "phase1"
    /\ idx' = IF agents = <<>> THEN 0 ELSE 1
    /\ round_num' = 0
    /\ shown' = <<>>
    /\ calls' = <<>>
    /\ ret' = Returned("running", None)
    /\ UNCHANGED <<method, max_rounds, agents, llm_client, peer, wrapper, harness>>

\* Phase 1, one agent: analysis, opening statement, first vote.  After the
\* last agent the analyses are copied into the log and round_num = 0.
Phase1TurnOf(Analyses(_), Replies(_, _, _)) ==
    /\ pc = "phase1"
    /\ \E analysis \in Analyses(Speaker(agents, idx)) :
         \E msg \in Replies(Speaker(agents, idx), <<>>, analysis) :
           LET agent == Speaker(agents, idx)
               analyses1 == DictPut(analyses, agent, analysis)
               last == idx = Len(agents)
           IN /\ analyses' = analyses1
              /\ shown' = <<>>
              /\ calls' = calls \o <<AgentCall("analyze_code", agent, None),
                                     AgentCall("respond_to_discussion", agent, analysis)>>
              /\ conversation' = Append(conversation, msg)
              /\ log' = [log EXCEPT !.messages = Append(@, msg),
                                    !.analyses = IF last THEN analyses1 ELSE @]
              /\ votes' = add_vote(votes, agent, analysis.verdict, analysis.confidence,
                                   AnalysisRationale(analysis))
              /\ idx' = IF last THEN 0 ELSE idx + 1
              /\ pc' = IF last THEN "loop" ELSE "phase1"
              /\ round_num' = 0
              /\ UNCHANGED <<method, max_rounds, rounds, agents, ret, llm_client, peer, wrapper, harness>>

Phase1Turn == Phase1TurnOf(AgentAnalyses, AgentReplies)

\* Variant: the loop tests the local round number alone.
LoopGuard_RoundNumOnly == round_num < max_rounds

\* Variant: the loop runs until a consensus exists, without a cap on the rounds.
LoopGuard_NoRoundCap == ~calculate_consensus(votes, rounds, method).consensus_reached

\* the test of the discussion loop
LoopGuard == should_continue(votes, rounds, max_rounds, method) /\ round_num < max_rounds

\* Phase 2: the loop test succeeds, a round starts.  With an empty roster
\* the round has no turn and the loop test comes next.
BeginRound ==
    /\ pc = "loop"
    /\ LoopGuard
    /\ round_num' = round_num + 1
    /\ rounds' = increment_round(rounds)
    /\ pc' = IF agents = <<>> THEN "loop" ELSE "phase2"
    /\ idx' = IF agents = <<>> THEN 0 ELSE 1
    /\ UNCHANGED <<method, max_rounds, votes, agents, conversation, analyses, log,
                   shown, ret, llm_client, peer, wrapper, harness, calls>>

\* Phase 2, one agent: the reply to the transcript so far; a reply with a
\* verdict replaces the agent's vote.
Phase2TurnOf(Replies(_, _, _)) ==
    /\ pc = "phase2"
    /\ LET agent == Speaker(agents, idx)
           analysis == DictGet(analyses, agent)
           transcript == RoundTranscript(conversation, agents)
       IN \E msg \in Replies(agent, transcript, analysis) :
            /\ shown' = transcript
            /\ calls' = Append(calls, AgentCall("respond_to_discussion", agent, analysis))
            /\ conversation' = Append(conversation, msg)
            /\ log' = [log EXCEPT !.messages = Append(@, msg)]
            /\ votes' = DiscussionVote(votes, agent, msg, analysis)
            /\ idx' = IF idx = Len(agents) THEN 0 ELSE idx + 1
            /\ pc' = IF idx = Len(agents) THEN "loop" ELSE "phase2"
            /\ UNCHANGED <<method, max_rounds, rounds, agents, analyses, round_num, ret,
                           llm_client, peer, wrapper, harness>>

Phase2Turn == Phase2TurnOf(AgentReplies)

\* Phase 3: the loop test fails; the consensus is computed, the log sealed
\* and returned.
FinalConsensus ==
    /\ pc = "loop"
    /\ ~LoopGuard
    /\ log' = [log EXCEPT !.consensus_result = calculate_consensus(votes, rounds, method),
                          !.ended = TRUE]
    /\ ret' = Returned("review_code", log')
    /\ pc' = "idle"
    /\ UNCHANGED <<method, max_rounds, votes, rounds, agents, conversation, analyses,
                   idx, round_num, shown, llm_client, peer, wrapper, harness, calls>>

\* quick_review up to the first agent: the ledger is reset.  With an empty
\* roster the consensus of the empty ledger is returned at once.
QuickReviewCall ==
    /\ pc = "idle"
    /\ votes' = reset(Manager).votes
    /\ rounds' = reset(Manager).rounds
    /\ pc' = IF agents = <<>> THEN "idle" ELSE "quick"
    /\ idx' = IF agents = <<>> THEN 0 ELSE 1
    /\ calls' = <<>>
    /\ ret' = IF agents = <<>>
              THEN Returned("quick_review", calculate_consensus(<<>>, 0, method))
              ELSE Returned("running", None)
    /\ UNCHANGED <<method, max_rounds, agents, conversation, analyses, log,
                   round_num, shown, llm_client, peer, wrapper, harness>>

\* quick_review, one agent: analysis and vote; after the last agent the
\* consensus is returned.
QuickReviewTurnOf(Analyses(_)) ==
    /\ pc = "quick"
    /\ \E analysis \in Analyses(Speaker(agents, idx)) :
        LET agent == Speaker(agents, idx)
            votes1 == add_vote(votes, agent, analysis.verdict, analysis.confidence,
                               AnalysisRationale(analysis))
            last == idx = Len(agents)
        IN /\ votes' = votes1
           /\ calls' = Append(calls, AgentCall("analyze_code", agent, None))
           /\ idx' = IF last THEN 0 ELSE idx + 1
           /\ pc' = IF last THEN "idle" ELSE "quick"
           /\ ret' = IF last
                     THEN Returned("quick_review",
                                   calculate_consensus(votes1, rounds, method))
                     ELSE ret
           /\ UNCHANGED <<method, max_rounds, rounds, agents, conversation, analyses,
                          log, round_num, shown, llm_client, peer, wrapper, harness>>

QuickReviewTurn == QuickReviewTurnOf(AgentAnalyses)

\* quick_review on an orchestrator that has run no review_code yet
QuickReviewBegin == ~log.started /\ QuickReviewCall

Next ==
    \/ ReviewCodeBegin
    \/ Phase1Turn
    \/ BeginRound
    \/ Phase2Turn
    \/ FinalConsensus
    \/ QuickReviewBegin
    \/ QuickReviewTurn

Spec == Init /\ [][Next]_vars

\* review_code is one sequential call: once it has begun, each of its steps
\* is taken as soon as the agent call it waits for has returned.  Whether and
\* when a review begins is the caller's choice.
ReviewCodeStep == Phase1Turn \/ BeginRound \/ Phase2Turn \/ FinalConsensus

SpecLive == Init /\ [][Next]_vars /\ WF_vars(ReviewCodeStep)

\* An orchestrator that is reused: review_code and quick_review are called
\* in any order, each call on what the earlier calls left behind.
NextReuse ==
    \/ ReviewCodeBegin
    \/ Phase1Turn
    \/ BeginRound
    \/ Phase2Turn
    \/ FinalConsensus
    \/ QuickReviewCall
    \/ QuickReviewTurn

\* the reused orchestrators are built with max_rounds = 1
InitReuse == Init /\ max_rounds = 1

SpecReuse == InitReuse /\ [][NextReuse]_vars

\* The policies on ledgers whose weights tie in real numbers: 0.1 * 1.5 + 0.5
\* = 0.5 * 1.3 for the SecurityAuditor, the CodeQualityReviewer and the
\* RuleComplianceVerifier.
TiedBallots ==
    {Ballot(APPROVE, 1, ""),
     Ballot(APPROVE, 5, ""),
     Ballot(REJECT, 5, "eval() on untrusted input"),
     Ballot(NEEDS_DISCUSSION, 5, "")}

AddTiedVote == AddVoteOf(AgentNames, TiedBallots)

NextOrder == AddTiedVote \/ Reset \/ CalculateConsensus

SpecOrder == InitCM /\ [][NextOrder]_vars

\* Reuse of a ConsensusManager, standing alone or owned by an orchestrator
InitReset == InitCM \/ InitReuse
NextReset == \/ AddRoundVote \/ IncrementRound \/ Reset \/ ReviewCodeBegin \/ Phase1Turn \/ BeginRound \/ Phase2Turn \/ FinalConsensus \/ QuickReviewCall \/ QuickReviewTurn
SpecReset == InitReset /\ [][NextReset]_vars

\* Two orchestrators, each with the ConsensusManager its __init__ builds.
\* One of them runs; the attributes of the other are held in peer.  The
\* caller's scheduler may pass control from one to the other between any two
\* steps.

\* the attributes of the running orchestrator and of its ConsensusManager
Here ==
    [made |-> TRUE, method |-> method, max_rounds |-> max_rounds, votes |-> votes,
     rounds |-> rounds, ret |-> ret, agents |-> agents,
     conversation |-> conversation, analyses |-> analyses, log |-> log, pc |-> pc,
     idx |-> idx, round_num |-> round_num, shown |-> shown,
     llm_client |-> llm_client, calls |-> calls]

\* ConversationOrchestrator(consensus_method = m, max_rounds = 1): new lists
\* and dicts for every attribute
NewOrchestrator(m) ==
    [made |-> TRUE, method |-> m, max_rounds |-> 1, votes |-> <<>>, rounds |-> 0,
     ret |-> Returned("__init__", None), agents |-> DefaultRoster,
     conversation |-> <<>>, analyses |-> <<>>, log |-> NoLog, pc |-> "idle",
     idx |-> 0, round_num |-> 0, shown |-> <<>>, llm_client |-> None,
     calls |-> <<>>]

\* the policies of the two orchestrators
TwoMethods == {UNANIMOUS, SECURITY_VETO}

\* Variant: the ledger is one list shared by all ConsensusManagers.
Resume_SharedLedger(saved, running) == [saved EXCEPT !.votes = running.votes]

\* the attributes an orchestrator finds when it runs again: its own, as it
\* left them (self.votes, self.conversation, ... are instance attributes)
Resume(saved, running) == saved

\* a second orchestrator is built
Construct ==
    /\ ~peer.made
    /\ \E m \in TwoMethods : peer' = NewOrchestrator(m)
    /\ UNCHANGED <<method, max_rounds, votes, rounds, ret, agents, conversation,
                   analyses, log, pc, idx, round_num, shown, llm_client, calls,
                   wrapper, harness>>

\* control passes to the other orchestrator
Switch ==
    /\ peer.made
    /\ peer' = Here
    /\ method' = Resume(peer, Here).method
    /\ max_rounds' = Resume(peer, Here).max_rounds
    /\ votes' = Resume(peer, Here).votes
    /\ rounds' = Resume(peer, Here).rounds
    /\ ret' = Resume(peer, Here).ret
    /\ agents' = Resume(peer, Here).agents
    /\ conversation' = Resume(peer, Here).conversation
    /\ analyses' = Resume(peer, Here).analyses
    /\ log' = Resume(peer, Here).log
    /\ pc' = Resume(peer, Here).pc
    /\ idx' = Resume(peer, Here).idx
    /\ round_num' = Resume(peer, Here).round_num
    /\ shown' = Resume(peer, Here).shown
    /\ llm_client' = Resume(peer, Here).llm_client
    /\ calls' = Resume(peer, Here).calls
    /\ UNCHANGED <<wrapper, harness>>

\* the agents of the two orchestrators approve or reject
TwoAnalyses(agent_name) == {a \in AnalysisOutputs : a.verdict \in {APPROVE, REJECT}}

\* and in a discussion round keep their vote or reject
TwoReplies(agent_name, transcript, analysis) ==
    IF transcript = <<>> THEN {OpeningMessage(agent_name, analysis)}
    ELSE {m \in DiscussionReplies(agent_name, transcript, analysis) :
              m.verdict \in {None, REJECT}}

\* each of the two orchestrators runs one review_code
ReviewCodeOnce == ~log.started /\ ReviewCodeBegin

Phase1TurnTwo == Phase1TurnOf(TwoAnalyses, TwoReplies)

Phase2TurnTwo == Phase2TurnOf(TwoReplies)

InitTwo == Init /\ max_rounds = 1 /\ method \in TwoMethods

NextTwo ==
    \/ Construct
    \/ Switch
    \/ ReviewCodeOnce
    \/ Phase1TurnTwo
    \/ BeginRound
    \/ Phase2TurnTwo
    \/ FinalConsensus

SpecTwo == InitTwo /\ [][NextTwo]_vars

\* The ledger under both of its users: a ConsensusManager whose ledger is
\* written through add_vote and reset, or one owned by an orchestrator.
InitLedger == InitCM \/ Init

NextLedger ==
    \/ AddVote
    \/ Reset
    \/ ReviewCodeBegin
    \/ Phase1Turn
    \/ BeginRound
    \/ Phase2Turn
    \/ FinalConsensus
    \/ QuickReviewBegin
    \/ QuickReviewTurn

SpecLedger == InitLedger /\ [][NextLedger]_vars

----------------------------------------------------------------------------
(* The built-in agents and their LLM collaborator: agents/*.py             *)

\* an llm_client whose chat() raises on every call
FailingClient == "FailingClient"

\* an llm_client whose chat() returns a text or raises
FlakyClient == "FlakyClient"

LLMClients == {None, FailingClient, FlakyClient}

\* One line "KEY: content" of a reply to the analysis prompt: the items of
\* the content split at commas, the verdict words found in its upper case,
\* and the content read as a float (in tenths) when float() accepts it.
ReplyLine(key, items, mentions, is_float, value) ==
    [key |-> key, items |-> items, mentions |-> mentions, is_float |-> is_float,
     value |-> value]

\* The outcome of llm_client.chat(...) on the analysis prompt
AnalysisChat(raised, lines) == [raised |-> raised, lines |-> lines]

\* The outcome of llm_client.chat(...) on a discussion prompt: the text and
\* the verdict words found in text.upper()
DiscussionChat(raised, text, mentions) ==
    [raised |-> raised, text |-> text, mentions |-> mentions]

AnalysisChatReplies ==
    {AnalysisChat(FALSE, <<ReplyLine("ISSUES", <<"exec of a decoded payload">>, {}, FALSE, 0),
                           ReplyLine("WARNINGS", <<"none">>, {}, FALSE, 0),
                           ReplyLine("VERDICT", <<"REJECT">>, {REJECT}, FALSE, 0),
                           ReplyLine("CONFIDENCE", <<"0.9">>, {}, TRUE, 9)>>),
     AnalysisChat(FALSE, <<ReplyLine("ISSUES", <<"none">>, {}, FALSE, 0),
                           ReplyLine("WARNINGS", <<"shell command built from input">>, {},
                                     FALSE, 0),
                           ReplyLine("VERDICT", <<"APPROVE">>, {APPROVE}, FALSE, 0),
                           ReplyLine("CONFIDENCE", <<"1.5">>, {}, TRUE, 15)>>),
     AnalysisChat(FALSE, <<ReplyLine("VERDICT", <<"APPROVE or REJECT">>, {APPROVE, REJECT},
                                     FALSE, 0),
                           ReplyLine("CONFIDENCE", <<"high">>, {}, FALSE, 0)>>),
     AnalysisChat(FALSE, <<ReplyLine("SUMMARY", <<"nothing to report">>, {}, FALSE, 0),
                           ReplyLine("CONFIDENCE", <<"-0.2">>, {}, TRUE, -2)>>)}

DiscussionChatReplies ==
    {DiscussionChat(FALSE, "I agree with the assessment. APPROVE", {APPROVE}),
     DiscussionChat(FALSE, "The decoded payload is unacceptable. REJECT", {REJECT}),
     DiscussionChat(FALSE, "Approve or reject? NEEDS_DISCUSSION",
                    {APPROVE, REJECT, NEEDS_DISCUSSION}),
     DiscussionChat(FALSE, "I would rather hear the others first.", {})}

\* what chat() may do on the analysis prompt
AnalysisChats(client) ==
    IF client = FailingClient THEN {AnalysisChat(TRUE, <<>>)}
    ELSE {AnalysisChat(TRUE, <<>>)} \cup AnalysisChatReplies

\* what chat() may do on a discussion prompt
DiscussionChats(client) ==
    IF client = FailingClient THEN {DiscussionChat(TRUE, "", {})}
    ELSE {DiscussionChat(TRUE, "", {})} \cup DiscussionChatReplies

\* _collect_positive_signals(code) of the submissions under review
PositiveSignals == {<<>>, <<"Uses official term_sdk", "Has docstrings">>}

\* max(0.0, min(1.0, confidence)), in tenths
ClampConfidence(confidence) ==
    IF confidence < 0 THEN 0 ELSE IF confidence > 10 THEN 10 ELSE confidence

\* the content of a line is neither empty nor "none"
HasItems(line) == line.items # <<>> /\ line.items # <<"none">>

\* one turn of the loop over the lines of _parse_llm_analysis
ParseLine(a, line) ==
    CASE line.key = "ISSUES" ->
             [a EXCEPT !.issues = IF HasItems(line) THEN line.items ELSE @]
      [] line.key = "WARNINGS" ->
             [a EXCEPT !.warnings = IF HasItems(line) THEN line.items ELSE @]
      [] line.key = "VERDICT" ->
             [a EXCEPT !.verdict = IF APPROVE \in line.mentions THEN APPROVE
                                   ELSE IF REJECT \in line.mentions THEN REJECT
                                   ELSE NEEDS_DISCUSSION]
      [] line.key = "CONFIDENCE" ->
             [a EXCEPT !.confidence = IF line.is_float THEN ClampConfidence(line.value)
                                      ELSE 5]
      [] OTHER -> a

\* SecurityAuditor._parse_llm_analysis
RECURSIVE ParseLines(_, _)
ParseLines(a, lines) ==
    IF lines = <<>> THEN a ELSE ParseLines(ParseLine(a, Head(lines)), Tail(lines))

parse_llm_analysis(lines, positives) ==
    ParseLines(CodeAnalysis(<<>>, <<>>, positives, NEEDS_DISCUSSION, 5), lines)

\* SecurityAuditor._llm_analyze_code
llm_analyze_code(positives, chat) ==
    IF chat.raised
    THEN CodeAnalysis(<<>>, <<>>, positives, NEEDS_DISCUSSION, 5)
    ELSE parse_llm_analysis(chat.lines, positives)

\* Variant: without a client the auditor rejects a submission that shows no
\* positive signal.
SecurityAuditorAnalyze_Strict(client, positives, chat) ==
    IF client # None
    THEN llm_analyze_code(positives, chat)
    ELSE IF positives = <<>>
    THEN CodeAnalysis(<<"No positive signal">>, <<>>, positives, REJECT, 9)
    ELSE CodeAnalysis(<<>>, <<>>, positives, NEEDS_DISCUSSION, 5)

\* SecurityAuditor.analyze_code
SecurityAuditorAnalyze(client, positives, chat) ==
    IF client # None
    THEN llm_analyze_code(positives, chat)
    ELSE CodeAnalysis(<<>>, <<>>, positives, NEEDS_DISCUSSION, 5)

\* what SecurityAuditor.analyze_code may return with this client
SecurityAuditorAnalyses(client) ==
    {SecurityAuditorAnalyze(client, positives, chat) :
         positives \in PositiveSignals, chat \in AnalysisChats(client)}

\* "- item" for every item
Bullets(items) == [i \in DOMAIN items |-> "- " \o items[i]]

\* _format_initial_response (the pictographs of the headings left out)
FormatInitialResponse(title, issues_heading, warnings_heading, positives_heading, warning_lines, analysis) ==
    Join("\n",
         <<title \o "\n">>
         \o (IF analysis.issues # <<>>
             THEN <<issues_heading>> \o Bullets(analysis.issues) \o <<"">> ELSE <<>>)
         \o (IF analysis.warnings # <<>>
             THEN <<warnings_heading>> \o warning_lines \o <<"">> ELSE <<>>)
         \o (IF analysis.positives # <<>>
             THEN <<positives_heading>> \o Bullets(analysis.positives) \o <<"">> ELSE <<>>)
         \o <<"**Verdict:** " \o analysis.verdict,
              "**Confidence:** " \o FormatPercent(analysis.confidence)>>)

\* the warnings CodeQualityReviewer lists: analysis.warnings[:5] and the
\* number of the others
QualityConcerns(warnings) ==
    Bullets(Prefix(warnings, 5))
    \o (IF Len(warnings) > 5
        THEN <<"- ... and " \o ToString(Len(warnings) - 5) \o " more">> ELSE <<>>)

InitialResponse(agent_name, analysis) ==
    CASE agent_name = SecurityAuditor ->
             FormatInitialResponse("## Security Analysis", "**Critical Issues Found:**",
                                   "**Warnings:**", "**Positive Signals:**",
                                   Bullets(analysis.warnings), analysis)
      [] agent_name = CodeQualityReviewer ->
             FormatInitialResponse("## Code Quality Analysis", "**Critical Issues:**",
                                   "**Quality Concerns:**", "**Quality Highlights:**",
                                   QualityConcerns(analysis.warnings), analysis)
      [] OTHER ->
             FormatInitialResponse("## Rules Compliance Analysis", "**Rule Violations:**",
                                   "**Compliance Concerns:**", "**Compliance Verified:**",
                                   Bullets(analysis.warnings), analysis)

\* [m for m in conversation if m.agent_name != self.name]
OtherMessages(agent_name, transcript) ==
    SelectSeq(transcript, LAMBDA m : m.agent_name # agent_name)

\* Variant: an auditor without issues of its own joins a rejection.
SecurityAuditorRuleBased_Joins(analysis, last_msg) ==
    IF last_msg.verdict = REJECT /\ analysis.issues = <<>>
    THEN ReviewMessage(SecurityAuditor,
                       "From a pure security standpoint, I found no critical issues. However, I defer to @"
                           \o last_msg.agent_name \o "'s concerns in their domain.",
                       REJECT, last_msg.agent_name)
    ELSE ReviewMessage(SecurityAuditor,
                       "Acknowledged @" \o last_msg.agent_name
                           \o "'s points. My security assessment stands: "
                           \o ToString(Len(analysis.issues)) \o " critical issues, "
                           \o ToString(Len(analysis.warnings)) \o " warnings.",
                       analysis.verdict, last_msg.agent_name)

\* SecurityAuditor._rule_based_respond
SecurityAuditorRuleBased(analysis, last_msg) ==
    IF last_msg.verdict = APPROVE /\ analysis.issues # <<>>
    THEN ReviewMessage(SecurityAuditor,
                       "I understand @" \o last_msg.agent_name
                           \o "'s perspective, but I maintain my concerns about security. The following issues cannot be ignored:\n\n"
                           \o Join("\n", Bullets(Prefix(analysis.issues, 3))),
                       REJECT, last_msg.agent_name)
    ELSE IF last_msg.verdict = REJECT /\ analysis.issues = <<>>
    THEN ReviewMessage(SecurityAuditor,
                       "From a pure security standpoint, I found no critical issues. However, I defer to @"
                           \o last_msg.agent_name \o "'s concerns in their domain.",
                       NEEDS_DISCUSSION, last_msg.agent_name)
    ELSE ReviewMessage(SecurityAuditor,
                       "Acknowledged @" \o last_msg.agent_name
                           \o "'s points. My security assessment stands: "
                           \o ToString(Len(analysis.issues)) \o " critical issues, "
                           \o ToString(Len(analysis.warnings)) \o " warnings.",
                       analysis.verdict, last_msg.agent_name)

\* CodeQualityReviewer._rule_based_respond
CodeQualityRuleBased(analysis, last_msg) ==
    IF last_msg.agent_name = SecurityAuditor /\ last_msg.verdict = REJECT
    THEN ReviewMessage(CodeQualityReviewer,
                       "@" \o last_msg.agent_name
                           \o " raises valid security concerns. Code quality analysis is secondary when security is compromised. I support rejection pending security fixes.",
                       REJECT, last_msg.agent_name)
    ELSE ReviewMessage(CodeQualityReviewer,
                       "Regarding @" \o last_msg.agent_name
                           \o "'s points - from a code quality perspective: "
                           \o ToString(Len(analysis.positives)) \o " strengths, "
                           \o ToString(Len(analysis.warnings)) \o " concerns. The code is "
                           \o (IF analysis.verdict = APPROVE THEN "readable and maintainable"
                               ELSE "could use improvements") \o ".",
                       analysis.verdict, last_msg.agent_name)

\* RuleComplianceVerifier._rule_based_respond
RuleComplianceRuleBased(analysis, last_msg) ==
    IF analysis.issues # <<>>
    THEN ReviewMessage(RuleComplianceVerifier,
                       "Responding to @" \o last_msg.agent_name
                           \o ": While I appreciate the input, the code has "
                           \o ToString(Len(analysis.issues))
                           \o " rule violation(s) that must be fixed. These are non-negotiable per AGENTS.md requirements.",
                       REJECT, last_msg.agent_name)
    ELSE ReviewMessage(RuleComplianceVerifier,
                       "@" \o last_msg.agent_name
                           \o ": From a rules perspective, the code is compliant. SDK patterns are correct and no forbidden modules detected.",
                       analysis.verdict, last_msg.agent_name)

RuleBasedRespond(agent_name, analysis, last_msg) ==
    CASE agent_name = SecurityAuditor -> SecurityAuditorRuleBased(analysis, last_msg)
      [] agent_name = CodeQualityReviewer -> CodeQualityRuleBased(analysis, last_msg)
      [] OTHER -> RuleComplianceRuleBased(analysis, last_msg)

\* Variant: the verdict is read from the reply whatever the analysis found.
LLMVerdict_ReplyOnly(agent_name, analysis, mentions) ==
    IF APPROVE \in mentions THEN APPROVE
    ELSE IF agent_name # RuleComplianceVerifier /\ REJECT \in mentions THEN REJECT
    ELSE IF agent_name = RuleComplianceVerifier /\ NEEDS_DISCUSSION \in mentions
    THEN NEEDS_DISCUSSION
    ELSE analysis.verdict

\* the verdict _llm_respond reads from the reply
LLMVerdict(agent_name, analysis, mentions) ==
    IF agent_name = RuleComplianceVerifier
    THEN IF analysis.issues # <<>> THEN REJECT
         ELSE IF APPROVE \in mentions THEN APPROVE
         ELSE IF NEEDS_DISCUSSION \in mentions THEN NEEDS_DISCUSSION
         ELSE analysis.verdict
    ELSE IF APPROVE \in mentions THEN APPROVE
         ELSE IF REJECT \in mentions THEN REJECT
         ELSE analysis.verdict

\* _llm_respond
llm_respond(agent_name, analysis, last_msg, chat) ==
    IF chat.raised
    THEN RuleBasedRespond(agent_name, analysis, last_msg)
    ELSE ReviewMessage(agent_name, chat.text,
                       LLMVerdict(agent_name, analysis, chat.mentions), last_msg.agent_name)

\* respond_to_discussion of a built-in agent once other agents have spoken
RespondToOthers(agent_name, client, analysis, last_msg, chat) ==
    IF client # None
    THEN llm_respond(agent_name, analysis, last_msg, chat)
    ELSE RuleBasedRespond(agent_name, analysis, last_msg)

\* Variant: the reply goes to the first of the other agents' messages.
respond_to_discussion_FirstOther(agent_name, client, transcript, my_analysis, chat) ==
    IF OtherMessages(agent_name, transcript) = <<>>
    THEN ReviewMessage(agent_name, InitialResponse(agent_name, my_analysis),
                       my_analysis.verdict, None)
    ELSE RespondToOthers(agent_name, client, my_analysis,
                         OtherMessages(agent_name, transcript)[1], chat)

\* respond_to_discussion of a built-in agent
respond_to_discussion(agent_name, client, transcript, my_analysis, chat) ==
    IF OtherMessages(agent_name, transcript) = <<>>
    THEN ReviewMessage(agent_name, InitialResponse(agent_name, my_analysis),
                       my_analysis.verdict, None)
    ELSE RespondToOthers(agent_name, client, my_analysis,
                         OtherMessages(agent_name, transcript)[Len(OtherMessages(agent_name, transcript))],
                         chat)

\* the longest transcript handed to an agent called on its own
MaxTranscript == 3

\* A built-in agent called on its own
InitAgents ==
    /\ method = SECURITY_VETO
    /\ max_rounds = DefaultMaxRounds
    /\ votes = <<>>
    /\ rounds = 0
    /\ ret = Returned("__init__", None)
    /\ agents = DefaultRoster
    /\ conversation = <<>>
    /\ analyses = <<>>
    /\ log = NoLog
    /\ pc = "standalone"
    /\ idx = 0
    /\ round_num = 0
    /\ shown = <<>>
    /\ llm_client \in LLMClients
    /\ calls = <<>>
    /\ peer = NoPeer
    /\ wrapper = NoWrapper
    /\ harness = NoHarness

\* SecurityAuditor(llm_client).analyze_code(code, filename)
AnalyzeCode ==
    /\ pc = "standalone"
    /\ \E analysis \in SecurityAuditorAnalyses(llm_client) :
           ret' = Returned("analyze_code", analysis)
    /\ calls' = <<AgentCall("analyze_code", SecurityAuditor, None)>>
    /\ UNCHANGED <<method, max_rounds, votes, rounds, agents, conversation, analyses, log,
                   pc, idx, round_num, shown, llm_client, peer, wrapper, harness>>

\* agent.respond_to_discussion(code, conversation, my_analysis), the message
\* joining the transcript of the next call
RespondToDiscussion ==
    /\ pc = "standalone"
    /\ Len(conversation) < MaxTranscript
    /\ \E i \in DOMAIN agents :
       \E my_analysis \in AnalysisOutputs :
       \E chat \in DiscussionChats(llm_client) :
           /\ ret' = Returned("respond_to_discussion",
                              respond_to_discussion(agents[i], llm_client, conversation,
                                                    my_analysis, chat))
           /\ conversation' = Append(conversation,
                                     respond_to_discussion(agents[i], llm_client,
                                                           conversation, my_analysis, chat))
           /\ calls' = <<AgentCall("respond_to_discussion", agents[i], my_analysis)>>
    /\ shown' = conversation
    /\ UNCHANGED <<method, max_rounds, votes, rounds, agents, analyses, log, pc, idx,
                   round_num, llm_client, peer, wrapper, harness>>

NextAgents ==
    \/ AnalyzeCode
    \/ RespondToDiscussion

SpecAgents == InitAgents /\ [][NextAgents]_vars

----------------------------------------------------------------------------
(* A review by the three built-in agents.  analyze_code of the two         *)
(* rule-based agents is a function of what their patterns find in the      *)
(* submission; the submissions are those whose confidences are whole       *)
(* tenths.  RuleComplianceVerifier computes 0.7 + 0.05 n, which for n = 2  *)
(* and n = 4 is the float next below 0.8 and 0.9; the ledger keeps 0.8 and *)
(* 0.9.                                                                    *)

\* a confidence given in twentieths, in tenths
Tenths(twentieths) == CHOOSE c \in 0..10 : 2 * c = twentieths

Min(a, b) == IF a <= b THEN a ELSE b

\* CodeQualityReviewer.analyze_code from its findings; nothing is ever
\* appended to issues
CodeQualityAnalyze(warnings, positives) ==
    LET issues == <<>>
        quality_score == Len(positives) * 2 - Len(warnings) - Len(issues) * 3
    IN IF issues # <<>> THEN CodeAnalysis(issues, warnings, positives, REJECT, Tenths(17))
       ELSE IF quality_score >= 5
       THEN CodeAnalysis(issues, warnings, positives, APPROVE,
                         Tenths(Min(18, 12 + quality_score)))
       ELSE IF quality_score >= 0
       THEN CodeAnalysis(issues, warnings, positives, NEEDS_DISCUSSION, Tenths(12))
       ELSE CodeAnalysis(issues, warnings, positives, REJECT, Tenths(14))

\* RuleComplianceVerifier.analyze_code from its findings
RuleComplianceAnalyze(issues, warnings, positives, sdk_signals) ==
    IF issues # <<>>
    THEN CodeAnalysis(issues, warnings, positives, REJECT,
                      Tenths(Min(19, 14 + Len(issues))))
    ELSE IF Len(warnings) > 3
    THEN CodeAnalysis(issues, warnings, positives, NEEDS_DISCUSSION, Tenths(13))
    ELSE IF sdk_signals # <<>>
    THEN CodeAnalysis(issues, warnings, positives, APPROVE, Tenths(17))
    ELSE CodeAnalysis(issues, warnings, positives, NEEDS_DISCUSSION, Tenths(10))

\* what CodeQualityReviewer finds in the submissions: a documented class
\* with a main guard, a module without docstring, a module without
\* docstring whose lines are too long
CodeQualityAnalyses ==
    {CodeQualityAnalyze(<<>>, <<"Has module-level docstring", "Uses classes (1 found)",
                                "Has __main__ guard">>),
     CodeQualityAnalyze(<<"Missing module-level docstring">>, <<"Has __main__ guard">>),
     CodeQualityAnalyze(<<"Missing module-level docstring",
                          "3 lines exceed 120 characters">>, <<>>)}

\* what RuleComplianceVerifier finds in the submissions: two forbidden
\* imports, or no SDK pattern, a forbidden import and two sandbox escapes
RuleComplianceAnalyses ==
    {RuleComplianceAnalyze(<<"Forbidden module 'socket': Direct socket access not allowed",
                             "Forbidden module 'ftplib': FTP not allowed">>,
                           <<"Missing if __name__ == '__main__' guard">>,
                           <<"Uses term_sdk (SDK 2.0 pattern)">>,
                           <<"term_sdk import", "run(self, ctx) method">>),
     RuleComplianceAnalyze(<<"No recognized SDK pattern found (need term_sdk or argparse+subprocess)",
                             "Forbidden module 'socket': Direct socket access not allowed",
                             "Line 3: Potential sandbox escape - Accessing /proc filesystem",
                             "Line 4: Potential sandbox escape - chroot attempt">>,
                           <<>>, <<"Has __main__ guard">>, <<>>)}

\* agent.analyze_code(code, filename) of the built-in agents
BuiltinAnalyses(agent_name) ==
    CASE agent_name = SecurityAuditor -> SecurityAuditorAnalyses(llm_client)
      [] agent_name = CodeQualityReviewer -> CodeQualityAnalyses
      [] OTHER -> RuleComplianceAnalyses

\* agent.respond_to_discussion(code, conversation, my_analysis) of the
\* built-in agents
BuiltinReplies(agent_name, transcript, analysis) ==
    {respond_to_discussion(agent_name, llm_client, transcript, analysis, chat) :
         chat \in DiscussionChats(llm_client)}

Phase1TurnBuiltin == Phase1TurnOf(BuiltinAnalyses, BuiltinReplies)

Phase2TurnBuiltin == Phase2TurnOf(BuiltinReplies)

\* the rounds of a review whose agents consult an LLM
LLMRounds == 1

\* self.agents as the owner may leave it: the three agents of __init__, or
\* two of them
BuiltinRosters == {DefaultRoster, <<CodeQualityReviewer, SecurityAuditor>>}

\* ConversationOrchestrator(llm_client = ..., consensus_method = ...)
InitBuiltin ==
    /\ method \in ConsensusMethod
    /\ llm_client \in LLMClients
    /\ max_rounds \in IF llm_client = None THEN 1..MaxRounds ELSE {LLMRounds}
    /\ votes = <<>>
    /\ rounds = 0
    /\ ret = Returned("__init__", None)
    /\ agents \in BuiltinRosters
    /\ conversation = <<>>
    /\ analyses = <<>>
    /\ log = NoLog
    /\ pc = "idle"
    /\ idx = 0
    /\ round_num = 0
    /\ shown = <<>>
    /\ calls = <<>>
    /\ peer = NoPeer
    /\ wrapper = NoWrapper
    /\ harness = NoHarness

\* analyze_code on the submission that review_code was given: the findings
\* of the patterns are the same, the LLM is asked again
SameCodeAnalyses(agent_name) ==
    IF agent_name = SecurityAuditor
    THEN {a \in SecurityAuditorAnalyses(llm_client) :
              a.positives = DictGet(analyses, agent_name).positives}
    ELSE {DictGet(analyses, agent_name)}

\* quick_review(code, filename) on the code that review_code has returned
\* the log of
QuickReviewSameCode == log.started /\ log.ended /\ QuickReviewCall

QuickReviewTurnBuiltin == QuickReviewTurnOf(SameCodeAnalyses)

NextBuiltin ==
    \/ ReviewCodeOnce
    \/ Phase1TurnBuiltin
    \/ BeginRound
    \/ Phase2TurnBuiltin
    \/ FinalConsensus
    \/ QuickReviewSameCode
    \/ QuickReviewTurnBuiltin

SpecBuiltin == InitBuiltin /\ [][NextBuiltin]_vars

----------------------------------------------------------------------------
(* Orchestrators as their owner may configure them: the roster emptied or  *)
(* extended by add_agent with an agent of the abstract interface, and a    *)
(* ConsensusManager whose method is any value.  The policies here are the  *)
(* ones that do no float arithmetic on the confidences, so that an agent   *)
(* may report any number.                                                  *)

\* the largest roster built with add_agent
MaxRoster == 3

\* a value of `method` that is none of the four members of ConsensusMethod
UnknownMethod == "average"

\* What analyze_code of a custom agent may return: CodeAnalysis.confidence is
\* a float that nothing constrains (1.5, -0.2), or a confidence in range.
CustomAnalysisOutputs ==
    {CodeAnalysis(<<>>, <<>>, <<"looks fine">>, APPROVE, 15),
     CodeAnalysis(<<"unused import">>, <<>>, <<>>, REJECT, -2),
     CodeAnalysis(<<>>, <<>>, <<>>, NEEDS_DISCUSSION, 5)}

ConfiguredAnalyses(agent_name) ==
    IF agent_name = CustomAgent THEN CustomAnalysisOutputs ELSE AnalysisOutputs

InitConfigured ==
    /\ method \in {MAJORITY, UNANIMOUS, UnknownMethod}
    /\ max_rounds \in 1..MaxRounds
    /\ votes = <<>>
    /\ rounds = 0
    /\ ret = Returned("__init__", None)
    /\ agents \in {<<>>, DefaultRoster}
    /\ conversation = <<>>
    /\ analyses = <<>>
    /\ log = NoLog
    /\ pc = "idle"
    /\ idx = 0
    /\ round_num = 0
    /\ shown = <<>>
    /\ llm_client = None
    /\ calls = <<>>
    /\ peer = NoPeer
    /\ wrapper = NoWrapper
    /\ harness = NoHarness

\* orchestrator.add_agent(agent) before the first review
AddAgent ==
    /\ pc = "idle"
    /\ ~log.started
    /\ ret.op = "__init__"
    /\ Len(agents) < MaxRoster
    /\ agents' = add_agent(agents, CustomAgent)
    /\ UNCHANGED <<method, max_rounds, votes, rounds, ret, conversation, analyses, log,
                   pc, idx, round_num, shown, llm_client, peer, wrapper, harness, calls>>

NextConfigured ==
    \/ AddAgent
    \/ ReviewCodeBegin
    \/ Phase1TurnOf(ConfiguredAnalyses, AgentReplies)
    \/ BeginRound
    \/ Phase2Turn
    \/ FinalConsensus
    \/ QuickReviewBegin
    \/ QuickReviewTurnOf(ConfiguredAnalyses)

SpecConfigured == InitConfigured /\ [][NextConfigured]_vars

----------------------------------------------------------------------------
(* Properties of the consensus policies, checked under SpecCM              *)

CalcReturned == ret.op = "calculate_consensus"

\* the ledger holds a Reject of the SecurityAuditor with confidence >= 0.7
VetoCondition(vs) ==
    \E i \in DOMAIN vs :
        /\ vs[i].agent_name = SecurityAuditor
        /\ vs[i].verdict = REJECT
        /\ vs[i].confidence >= 7

NamesOf(entries) == [i \in DOMAIN entries |-> entries[i].agent_name]

CountOf(vs, verdict) == Cardinality({i \in DOMAIN vs : vs[i].verdict = verdict})

\* the weight of a role as the documentation states it, in tenths
StatedRoleWeight(agent_name) ==
    IF agent_name = "SecurityAuditor" THEN 15
    ELSE IF agent_name = "RuleComplianceVerifier" THEN 13
    ELSE 10

\* the summed confidence x role weight of the votes for one verdict
StatedWeight(vs, verdict) ==
    LET f[i \in 0..Len(vs)] ==
            IF i = 0 THEN 0
            ELSE f[i - 1] + (IF vs[i].verdict = verdict
                             THEN vs[i].confidence * StatedRoleWeight(vs[i].agent_name)
                             ELSE 0)
    IN f[Len(vs)]

\* C1: under security_veto, a ledger with a Reject of the SecurityAuditor at
\* confidence >= 0.7 gives final_verdict Reject with consensus reached, and
\* the dissenting opinions name exactly the agents whose verdict is not Reject.
C1_SecurityVetoRejects ==
    (CalcReturned /\ method = SECURITY_VETO /\ VetoCondition(votes)) =>
        /\ ret.value.final_verdict = REJECT
        /\ ret.value.consensus_reached
        /\ NamesOf(ret.value.dissenting_opinions)
               = NamesOf(SelectSeq(votes, LAMBDA v : v.verdict # REJECT))

\* A veto at exactly 0.7 against an Approve and a NeedsDiscussion vote.
C1_Witness ==
    /\ CalcReturned
    /\ method = SECURITY_VETO
    /\ \E i \in DOMAIN votes :
           /\ votes[i].agent_name = SecurityAuditor
           /\ votes[i].verdict = REJECT
           /\ votes[i].confidence = 7
    /\ CountOf(votes, APPROVE) = 1
    /\ CountOf(votes, NEEDS_DISCUSSION) = 1
    /\ ret.value.final_verdict = REJECT
    /\ Len(ret.value.dissenting_opinions) = 2

\* C2: under majority, on a non-empty ledger of N votes, consensus is reached
\* exactly when some verdict has more than N/2 votes, and that verdict is the
\* final one; otherwise the result is NeedsDiscussion without consensus.
C2_MajorityRule ==
    (CalcReturned /\ method = MAJORITY /\ votes # <<>>) =>
        LET winners == {v \in ReviewVerdict : 2 * CountOf(votes, v) > Len(votes)}
        IN /\ ret.value.consensus_reached <=> winners # {}
           /\ winners # {} => ret.value.final_verdict \in winners
           /\ winners = {} => /\ ret.value.final_verdict = NEEDS_DISCUSSION
                              /\ ~ret.value.consensus_reached

\* Two votes that disagree: one vote is exactly N/2 and no majority.
C2_Witness ==
    /\ CalcReturned
    /\ method = MAJORITY
    /\ Len(votes) = 2
    /\ CountOf(votes, APPROVE) = 1
    /\ CountOf(votes, REJECT) = 1
    /\ ret.value.final_verdict = NEEDS_DISCUSSION
    /\ ~ret.value.consensus_reached

\* C3: under unanimous, on a non-empty ledger, consensus is reached exactly
\* when all votes carry one verdict V, and then the result is V with no
\* dissent; otherwise the result is NeedsDiscussion with total confidence 0.5
\* and one agent:verdict entry for every agent of the ledger.
C3_UnanimousRule ==
    (CalcReturned /\ method = UNANIMOUS /\ votes # <<>>) =>
        LET same == \A i, j \in DOMAIN votes : votes[i].verdict = votes[j].verdict
            r == ret.value
        IN /\ r.consensus_reached <=> same
           /\ same => /\ r.final_verdict = votes[1].verdict
                      /\ r.dissenting_opinions = <<>>
           /\ ~same => /\ r.final_verdict = NEEDS_DISCUSSION
                       /\ RatEq(r.total_confidence, Rat(1, 2))
                       /\ Len(r.dissenting_opinions) = Len(votes)
                       /\ \A i \in DOMAIN votes :
                              /\ r.dissenting_opinions[i].agent_name = votes[i].agent_name
                              /\ r.dissenting_opinions[i].verdict = votes[i].verdict

\* Three votes, two of them equal: no consensus, three dissent entries.
C3_Witness ==
    /\ CalcReturned
    /\ method = UNANIMOUS
    /\ Len(votes) = 3
    /\ CountOf(votes, APPROVE) = 2
    /\ CountOf(votes, REJECT) = 1
    /\ ~ret.value.consensus_reached
    /\ Len(ret.value.dissenting_opinions) = 3

\* C4: under weighted, a vote weighs confidence x role weight (1.5, 1.3, 1.0,
\* and 1.0 for an unknown name); the final verdict has the largest summed
\* weight, and consensus is reached exactly when that weight is more than half
\* of the total weight.  The weights are the real products and sums here; the
\* policy computes them in floats, and 0.6 * 1.5 is the float below 0.9.
C4_WeightedRule ==
    (CalcReturned /\ method = WEIGHTED /\ votes # <<>>) =>
        LET r == ret.value
            total == StatedWeight(votes, APPROVE) + StatedWeight(votes, REJECT)
                         + StatedWeight(votes, NEEDS_DISCUSSION)
        IN /\ \A i \in DOMAIN votes :
                  votes[i].role_weight = StatedRoleWeight(votes[i].agent_name)
           /\ \A v \in ReviewVerdict :
                  StatedWeight(votes, r.final_verdict) >= StatedWeight(votes, v)
           /\ r.consensus_reached <=> 2 * StatedWeight(votes, r.final_verdict) > total

\* C5: under security_veto, when the ledger holds no Reject of the
\* SecurityAuditor at confidence >= 0.7, the result has the final verdict, the
\* consensus flag, the total confidence and the dissenting agents the weighted
\* policy gives on the same ledger.
C5_VetoFallsThroughToWeighted ==
    (CalcReturned /\ method = SECURITY_VETO /\ ~VetoCondition(votes)) =>
        LET w == calculate_consensus(votes, rounds, WEIGHTED)
            r == ret.value
        IN /\ r.final_verdict = w.final_verdict
           /\ r.consensus_reached = w.consensus_reached
           /\ r.total_confidence = w.total_confidence
           /\ NamesOf(r.dissenting_opinions) = NamesOf(w.dissenting_opinions)

\* A Reject of the SecurityAuditor below 0.7 that is outweighed by approvals.
C5_Witness ==
    /\ CalcReturned
    /\ method = SECURITY_VETO
    /\ \E i \in DOMAIN votes :
           /\ votes[i].agent_name = SecurityAuditor
           /\ votes[i].verdict = REJECT
           /\ votes[i].confidence < 7
    /\ ret.value.final_verdict = APPROVE
    /\ ret.value.consensus_reached
    /\ NamesOf(ret.value.dissenting_opinions) = <<SecurityAuditor>>

----------------------------------------------------------------------------
(* Properties of the ledger, checked under SpecLedger                      *)

UniqueNames(vs) ==
    \A i, j \in DOMAIN vs : vs[i].agent_name = vs[j].agent_name => i = j

\* the vote the ledger holds after a call add_vote(args)
VoteOfCall(args) ==
    [agent_name |-> args[1], verdict |-> args[2], confidence |-> args[3],
     rationale |-> args[4]]

Stored(v) ==
    [agent_name |-> v.agent_name, verdict |-> v.verdict, confidence |-> v.confidence,
     rationale |-> v.rationale]

\* In every state: one vote per name; inside a review no more votes than
\* registered agents; the vote of the add_vote that has just returned is the
\* last entry and carries the call's arguments.
C6_LedgerState ==
    /\ UniqueNames(votes)
    /\ pc # "standalone" => Len(votes) <= Len(agents)
    /\ ret.op = "add_vote" => Stored(votes[Len(votes)]) = VoteOfCall(ret.value)

\* In every step that registers a vote: the other agents' votes are kept in
\* their order, the voter's previous vote is gone, and the size is unchanged
\* when the voter was present.  In a review the vote is the one the
\* orchestrator passes: the analysis verdict and confidence in Phase 1 and in
\* quick_review, the message verdict with the analysis confidence and the
\* first 200 characters of the message in Phase 2.
C6_VoteStep ==
    (votes' # votes /\ votes' # <<>>) =>
        LET new == votes'[Len(votes')]
            was_present == \E i \in DOMAIN votes : votes[i].agent_name = new.agent_name
        IN /\ SubSeq(votes', 1, Len(votes') - 1)
                  = SelectSeq(votes, LAMBDA v : v.agent_name # new.agent_name)
           /\ was_present => Len(votes') = Len(votes)
           /\ ~was_present => Len(votes') = Len(votes) + 1
           /\ pc \in {"phase1", "quick"} =>
                  \E analysis \in AnalysisOutputs :
                      /\ pc = "phase1" => DictGet(analyses', agents[idx]) = analysis
                      /\ Stored(new) = VoteOfCall(<<agents[idx], analysis.verdict,
                                                    analysis.confidence,
                                                    AnalysisRationale(analysis)>>)
           /\ pc = "phase2" =>
                  LET msg == conversation'[Len(conversation')]
                  IN Stored(new) = VoteOfCall(<<agents[idx], msg.verdict,
                                                DictGet(analyses, agents[idx]).confidence,
                                                Prefix(msg.content, RationaleLen)>>)

\* C6: the ledger holds at most one vote per agent name, and that vote carries
\* the verdict, confidence and rationale of the latest add_vote for the name;
\* an add_vote for a name already present leaves the size unchanged; in
\* review_code and quick_review the ledger is never larger than the roster.
C6_LatestVoteWins == []C6_LedgerState /\ [][C6_VoteStep]_vars

\* In a discussion round the first agent of the roster has voted again: its
\* vote moved behind the two others and the ledger still has three entries.
C6_Witness ==
    /\ pc = "phase2"
    /\ idx = 2
    /\ Len(votes) = 3
    /\ votes[3].agent_name = agents[1]
    /\ votes[3].verdict # DictGet(analyses, agents[1]).verdict
    /\ votes[3].rationale = Prefix(LongReply, RationaleLen)

----------------------------------------------------------------------------
(* Properties of review_code and quick_review, checked under Spec          *)

\* review_code has returned the sealed log
Sealed == pc = "idle" /\ ret.op = "review_code"

\* a sealed majority review with max_rounds = 1 of three agents whose analyses
\* are all NeedsDiscussion and whose messages carry no other verdict
AllNeedsDiscussion ==
    /\ Sealed
    /\ method = MAJORITY
    /\ max_rounds = 1
    /\ Len(log.analyses) = 3
    /\ \A i \in DOMAIN log.analyses : log.analyses[i].val.verdict = NEEDS_DISCUSSION
    /\ \A i \in DOMAIN log.messages : log.messages[i].verdict \in {NEEDS_DISCUSSION, None}

\* C7 as stated: such a review runs exactly one discussion round and its
\* result is NeedsDiscussion without consensus after one round.
C7_OneRoundWithoutConsensus ==
    AllNeedsDiscussion =>
        /\ Len(log.messages) = 2 * Len(agents)
        /\ ~should_continue(votes, rounds, max_rounds, method)
        /\ log.consensus_result.final_verdict = NEEDS_DISCUSSION
        /\ ~log.consensus_result.consensus_reached
        /\ log.consensus_result.rounds_taken = 1

\* C7: such a review runs no discussion round: three NeedsDiscussion votes
\* are a majority, so should_continue() is false after Phase 1 and the result
\* is NeedsDiscussion with consensus reached and rounds_taken = 0.
C7_MajorityOfNeedsDiscussion ==
    AllNeedsDiscussion =>
        /\ Len(log.messages) = Len(agents)
        /\ ~should_continue(votes, rounds, max_rounds, method)
        /\ log.consensus_result.final_verdict = NEEDS_DISCUSSION
        /\ log.consensus_result.consensus_reached
        /\ log.consensus_result.rounds_taken = 0

C7_Witness ==
    /\ AllNeedsDiscussion
    /\ Len(log.messages) = 3
    /\ log.consensus_result.consensus_reached
    /\ log.consensus_result.rounds_taken = 0

\* C8 as stated: under security_veto, once the SecurityAuditor's vote is a
\* Reject at confidence >= 0.7 inside a discussion round, no further message
\* is added.
C8_VetoStopsTheRound ==
    [][(method = SECURITY_VETO /\ pc = "phase2" /\ VetoCondition(votes))
           => conversation' = conversation]_vars

\* C8: under security_veto, when the SecurityAuditor's vote becomes a Reject
\* at confidence >= 0.7 inside a discussion round, every agent scheduled
\* later in the round still adds its message and the veto stays; at the end
\* of the round no further round starts, and the review returns Reject with
\* consensus reached after that round.
C8_VetoEndsAfterTheRound ==
    [][(method = SECURITY_VETO /\ VetoCondition(votes)) =>
           /\ pc = "phase2" =>
                  /\ Len(conversation') = Len(conversation) + 1
                  /\ conversation'[Len(conversation')].agent_name = agents[idx]
                  /\ VetoCondition(votes')
           /\ pc = "loop" =>
                  /\ pc' = "idle"
                  /\ conversation' = conversation
                  /\ log'.consensus_result.final_verdict = REJECT
                  /\ log'.consensus_result.consensus_reached
                  /\ log'.consensus_result.rounds_taken = round_num]_vars

\* The end of round 1 of 2: the SecurityAuditor approved in Phase 1 and
\* rejected in the round, and the two other agents have replied after it.
C8_Witness ==
    /\ method = SECURITY_VETO
    /\ pc = "loop"
    /\ max_rounds = 2
    /\ round_num = 1
    /\ VetoCondition(votes)
    /\ DictGet(analyses, SecurityAuditor).verdict = APPROVE
    /\ Len(conversation) = 6
    /\ conversation[4].agent_name = SecurityAuditor
    /\ conversation[4].verdict = REJECT

\* C9 (checked under SpecRounds): should_continue() returns false exactly
\* when rounds >= max_rounds or the consensus of the current ledger is
\* reached; so it is false at rounds = max_rounds without a consensus.
C9_ShouldContinue ==
    ret.op = "should_continue" =>
        (ret.value = FALSE <=>
            \/ rounds >= max_rounds
            \/ calculate_consensus(votes, rounds, method).consensus_reached)

\* should_continue() has returned false at rounds = max_rounds on a ledger of
\* two votes without consensus.
C9_Witness ==
    /\ ret.op = "should_continue"
    /\ ret.value = FALSE
    /\ rounds = max_rounds
    /\ Len(votes) = 2
    /\ ~calculate_consensus(votes, rounds, method).consensus_reached

\* C10: in every state of review_code and quick_review and in every result
\* they return, the round counter is at most max_rounds.
C10_RoundsBounded ==
    /\ rounds <= max_rounds
    /\ round_num <= max_rounds
    /\ (log.started /\ log.ended) => log.consensus_result.rounds_taken <= max_rounds
    /\ ret.op = "review_code" => ret.value.consensus_result.rounds_taken <= max_rounds
    /\ ret.op = "quick_review" => ret.value.rounds_taken <= max_rounds

\* A review that used both of its two rounds.
C10_Witness ==
    /\ Sealed
    /\ max_rounds = 2
    /\ log.consensus_result.rounds_taken = 2
    /\ Len(log.messages) = 9

----------------------------------------------------------------------------
(* The empty ledger, checked under SpecCM                                  *)

\* C13: under every policy calculate_consensus on an empty ledger returns
\* NEEDS_DISCUSSION without consensus, total_confidence 0, an empty
\* vote_breakdown, empty confidence_scores, no dissenting opinion, the
\* current round counter and the summary "No votes received".
C13_EmptyLedger ==
    (CalcReturned /\ votes = <<>>) =>
        /\ ret.value.final_verdict = NEEDS_DISCUSSION
        /\ ret.value.consensus_reached = FALSE
        /\ ret.value.vote_breakdown = <<>>
        /\ ret.value.confidence_scores = <<>>
        /\ ret.value.total_confidence.num = 0
        /\ ret.value.rounds_taken = rounds
        /\ ret.value.dissenting_opinions = <<>>
        /\ ret.value.summary = <<"No votes received">>

\* The consensus of an empty ledger was computed under the weighted policy.
C13_Witness ==
    /\ CalcReturned
    /\ votes = <<>>
    /\ method = WEIGHTED
    /\ ret.value.summary = <<"No votes received">>

----------------------------------------------------------------------------
(* The transcript, the ledger and the agent calls of review_code, checked   *)
(* under Spec                                                               *)

\* the number of registered agents
RosterSize == Len(agents)

\* the messages of the discussion rounds: those after the opening statements
DiscussionMessages ==
    IF Len(log.messages) <= RosterSize THEN <<>>
    ELSE SubSeq(log.messages, RosterSize + 1, Len(log.messages))

\* no two registered agents have the same name
DistinctRoster == \A i, j \in DOMAIN agents : agents[i] = agents[j] => i = j

\* a round of the discussion, or Phase 1, is complete
BetweenRounds == log.started /\ (pc = "loop" \/ Sealed)

\* C16: with N registered agents of distinct names, between rounds and in
\* the sealed log the transcript has N * (1 + rounds) messages, the j-th
\* message of every block of N is by the j-th registered agent, the first
\* block holds the opening statements, and a sealed log with rounds_taken = r
\* has exactly N * (1 + r) messages.
C16_MessageBlocks ==
    (BetweenRounds /\ DistinctRoster) =>
        /\ Len(log.messages) = RosterSize * (1 + rounds)
        /\ \A i \in DOMAIN log.messages :
               log.messages[i].agent_name = agents[((i - 1) % RosterSize) + 1]
        /\ \A i \in DOMAIN log.messages :
               i <= RosterSize => log.messages[i].in_reply_to = None
        /\ Sealed => Len(log.messages) =
                         RosterSize * (1 + log.consensus_result.rounds_taken)

\* A sealed review of one round: six messages, the last one by the third agent.
C16_Witness ==
    /\ Sealed
    /\ log.consensus_result.rounds_taken = 1
    /\ Len(log.messages) = 6
    /\ log.messages[6].agent_name = RuleComplianceVerifier
    /\ log.messages[6].in_reply_to # None

\* the number of agents that have spoken in the current block
SpokenInBlock ==
    IF pc = "phase1" \/ pc = "phase2" THEN idx - 1 ELSE RosterSize

\* C17: in Phase 1 every agent is given the empty transcript; in round k the
\* agent called last was given all messages appended before its own reply:
\* the opening statements, the earlier rounds and the replies of the agents
\* scheduled before it in round k, in that order and nothing else.
C17_SequentialTranscript ==
    (log.started /\ SpokenInBlock >= 1) =>
        IF round_num = 0
        THEN shown = <<>>
        ELSE /\ Len(shown) = RosterSize * round_num + SpokenInBlock - 1
             /\ shown = SubSeq(log.messages, 1, Len(shown))
             /\ Len(log.messages) = Len(shown) + 1

\* The third agent of round 2 has replied: it was shown eight messages, the
\* last two of them from its own round.
C17_Witness ==
    /\ log.started
    /\ pc = "loop"
    /\ round_num = 2
    /\ Len(shown) = 8
    /\ shown[8].agent_name = CodeQualityReviewer
    /\ shown[7].agent_name = SecurityAuditor

\* the Phase-1 analysis of an agent, as stored by the orchestrator
StoredAnalysis(agent_name) ==
    analyses[CHOOSE i \in DOMAIN analyses : analyses[i].key = agent_name].val

\* the verdict of the agent's most recent discussion message that carries
\* one, or None
LastDiscussionVerdict(agent_name) ==
    LET mine == SelectSeq(DiscussionMessages,
                          LAMBDA m : m.agent_name = agent_name /\ m.verdict # None)
    IN IF mine = <<>> THEN None ELSE mine[Len(mine)].verdict

C18_LedgerState ==
    log.started =>
        \A k \in DOMAIN analyses :
            LET agent_name == analyses[k].key
                analysis == analyses[k].val
                last_verdict == LastDiscussionVerdict(agent_name)
            IN /\ \E i \in DOMAIN votes : votes[i].agent_name = agent_name
               /\ \A i \in DOMAIN votes :
                      votes[i].agent_name = agent_name =>
                          /\ votes[i].confidence = analysis.confidence
                          /\ votes[i].verdict = IF last_verdict = None
                                                THEN analysis.verdict
                                                ELSE last_verdict

C18_NullVerdictStep ==
    (/\ pc = "phase2"
     /\ pc' # "phase1"
     /\ Len(log'.messages) = Len(log.messages) + 1
     /\ log'.messages[Len(log'.messages)].verdict = None) => votes' = votes

\* C18: after an agent's Phase-1 turn its ledger vote keeps the confidence of
\* its Phase-1 analysis; the vote's verdict is the analysis verdict until the
\* agent sends a discussion message with a verdict and from then on the
\* verdict of its latest such message; a discussion message without a
\* verdict leaves the ledger as it is.
C18_VoteFollowsMessages == []C18_LedgerState /\ [][C18_NullVerdictStep]_vars

\* The SecurityAuditor analysed APPROVE, rejected in round 1 and sent a
\* message without a verdict in round 2: its vote is still the REJECT.
C18_Witness ==
    /\ log.started
    /\ round_num = 2
    /\ Len(log.messages) >= 7
    /\ StoredAnalysis(SecurityAuditor).verdict = APPROVE
    /\ log.messages[4].verdict = REJECT
    /\ log.messages[7].verdict = None
    /\ \E i \in DOMAIN votes : /\ votes[i].agent_name = SecurityAuditor
                               /\ votes[i].verdict = REJECT
                               /\ votes[i].confidence = 9

\* the calls of one kind, in order
CallsOf(op) == SelectSeq(calls, LAMBDA c : c.op = op)

C19_CallState ==
    log.started =>
        LET done == IF pc = "phase1" THEN idx - 1 ELSE RosterSize
            analyze == CallsOf("analyze_code")
            respond == CallsOf("respond_to_discussion")
        IN /\ Len(analyze) = done
           /\ \A j \in DOMAIN analyze : analyze[j].agent_name = agents[j]
           /\ \A j \in DOMAIN calls :
                  calls[j].op = "analyze_code" => j <= 2 * RosterSize
           /\ Len(respond) = Len(log.messages)
           /\ \A j \in DOMAIN respond :
                  /\ respond[j].agent_name = log.messages[j].agent_name
                  /\ respond[j].my_analysis =
                         respond[((j - 1) % RosterSize) + 1].my_analysis
                  /\ respond[j].my_analysis = StoredAnalysis(respond[j].agent_name)
           /\ pc # "phase1" => log.analyses = analyses

C19_AnalysesStep ==
    ((pc = "loop" \/ pc = "phase2") /\ pc' # "phase1") =>
        /\ analyses' = analyses
        /\ log'.analyses = log.analyses
        /\ CallsOf("analyze_code")' = CallsOf("analyze_code")

\* C19: analyze_code is called once per agent per review_code, in Phase 1
\* and in registration order; Phases 2 and 3 leave the stored analyses as
\* they are; every respond_to_discussion call of a round is given the
\* analysis its agent returned in Phase 1; the analyses of the log are the
\* Phase-1 analyses.
C19_AnalysesFrozen == []C19_CallState /\ [][C19_AnalysesStep]_vars

\* A sealed review of two rounds whose three analyses differ pairwise.
C19_Witness ==
    /\ Sealed
    /\ log.consensus_result.rounds_taken = 2
    /\ Len(CallsOf("analyze_code")) = 3
    /\ Len(CallsOf("respond_to_discussion")) = 9
    /\ log.analyses[1].val # log.analyses[2].val
    /\ log.analyses[2].val # log.analyses[3].val
    /\ log.analyses[1].val # log.analyses[3].val

\* the ledger as Phase 1 leaves it: one vote per analysis, in order
Phase1Votes ==
    [k \in DOMAIN analyses |->
        AgentVote(analyses[k].key, analyses[k].val.verdict,
                  analyses[k].val.confidence, AnalysisRationale(analyses[k].val))]

\* C20: when the votes of Phase 1 already give consensus_reached = true under
\* the configured policy, no discussion round runs: the transcript keeps the
\* opening statements only, no agent is asked to respond a second time, and
\* the sealed result has rounds_taken = 0.
C20_NoRoundAfterConsensus ==
    (/\ log.started
     /\ pc # "phase1"
     /\ calculate_consensus(Phase1Votes, 0, method).consensus_reached) =>
        /\ pc # "phase2"
        /\ rounds = 0
        /\ round_num = 0
        /\ Len(log.messages) = RosterSize
        /\ Len(CallsOf("respond_to_discussion")) = RosterSize
        /\ Sealed => log.consensus_result.rounds_taken = 0

\* Three APPROVE analyses at confidence 0.9 under the unanimous policy.
C20_Witness ==
    /\ Sealed
    /\ method = UNANIMOUS
    /\ \A k \in DOMAIN log.analyses :
           /\ log.analyses[k].val.verdict = APPROVE
           /\ log.analyses[k].val.confidence = 9
    /\ log.consensus_result.final_verdict = APPROVE
    /\ log.consensus_result.consensus_reached
    /\ log.consensus_result.rounds_taken = 0
    /\ Len(log.messages) = 3

----------------------------------------------------------------------------
(* Configuration errors and reported confidences, checked under            *)
(* SpecConfigured                                                           *)

\* the roster is empty or the method is none of the four policies
Misconfigured == agents = <<>> \/ method \notin ConsensusMethod

\* a configured orchestrator on which no phase of a review has executed and
\* from which no result has been returned
NothingExecuted ==
    /\ pc = "idle"
    /\ ret.op = "__init__"
    /\ ~log.started
    /\ conversation = <<>>
    /\ analyses = <<>>
    /\ votes = <<>>
    /\ rounds = 0

\* C12 as stated: a review started with an empty roster, or with a method
\* that is none of the four policies, executes no phase and returns no
\* result, and calculate_consensus computes no policy for an unknown method.
C12_ConfigurationErrorFatal == Misconfigured => NothingExecuted

\* the confidences of a ledger or of a confidence_scores dict
InUnitInterval(confidence) == confidence \in 0..10

\* C14 as stated: every vote stored in the ledger and every entry of
\* confidence_scores in a returned result has its confidence in [0, 1].
C14_ConfidenceClamped ==
    /\ \A i \in DOMAIN votes : InUnitInterval(votes[i].confidence)
    /\ ret.op = "quick_review" =>
           \A i \in DOMAIN ret.value.confidence_scores :
               InUnitInterval(ret.value.confidence_scores[i].val)
    /\ ret.op = "review_code" =>
           \A i \in DOMAIN ret.value.consensus_result.confidence_scores :
               InUnitInterval(ret.value.consensus_result.confidence_scores[i].val)

----------------------------------------------------------------------------
(* Failures of the LLM collaborator, checked under SpecAgents             *)

\* the call that returned was made on an agent whose every chat() raises
CalledWhileFailing(op) == llm_client = FailingClient /\ ret.op = op

\* the neutral analysis: NeedsDiscussion at confidence 0.5
NeutralAnalysis(analysis) ==
    analysis.verdict = NEEDS_DISCUSSION /\ analysis.confidence = 5

\* the analysis tells its reader of the failure: the positive signals are
\* observations on the code, so the text is among its issues or warnings
HasAdvisoryMessage(analysis) == analysis.issues # <<>> \/ analysis.warnings # <<>>

\* the agent returned a message of its own with a verdict
ReturnedOwnMessage ==
    /\ ret.value.agent_name = calls[1].agent_name
    /\ ret.value.verdict \in ReviewVerdict
    /\ ret.value.content # ""

\* the neutral analysis and the message are returned
FailuresReturnNeutral ==
    /\ CalledWhileFailing("analyze_code") => NeutralAnalysis(ret.value)
    /\ CalledWhileFailing("respond_to_discussion") => ReturnedOwnMessage

\* C15 as stated: when every LLM call of a built-in agent raises,
\* analyze_code returns the neutral analysis together with an advisory
\* message, and respond_to_discussion returns a message.
C15_FailuresContained ==
    /\ FailuresReturnNeutral
    /\ CalledWhileFailing("analyze_code") => HasAdvisoryMessage(ret.value)

----------------------------------------------------------------------------
(* Termination of review_code, checked under SpecLive                      *)

\* review_code has been called and has not returned
InReview == pc \in {"phase1", "loop", "phase2"}

\* the log that review_code returned is sealed, was reached within
\* max_rounds rounds, and carries the consensus of the ledger as the last
\* discussion message left it
SealedWithinRounds ==
    Sealed =>
        /\ ret.value = log
        /\ log.ended
        /\ log.consensus_result = calculate_consensus(votes, rounds, method)
        /\ log.consensus_result.rounds_taken <= max_rounds
        /\ round_num <= max_rounds
        /\ Len(DiscussionMessages) = round_num * RosterSize
        /\ log.messages = conversation

\* C11: every review_code call whose agent calls all return eventually
\* returns; the log it returns is sealed (ended_at and consensus_result set),
\* no more than max_rounds discussion rounds were run, and consensus_result
\* is calculate_consensus() of the ledger after the last discussion message.
C11_ReviewTerminates == []SealedWithinRounds /\ (InReview ~> Sealed)

\* a review in which no agent ever changed its mind ran all its rounds
\* without a consensus and was sealed all the same
C11_Witness ==
    /\ Sealed
    /\ max_rounds = MaxRounds
    /\ round_num = max_rounds
    /\ ~log.consensus_result.consensus_reached
    /\ Len(log.messages) = (1 + MaxRounds) * RosterSize

----------------------------------------------------------------------------
(* The order of the result's collections, checked under SpecCM             *)

\* the agent names of a list of votes, of dict entries or of dissents
VoteNames(vs) == [i \in DOMAIN vs |-> vs[i].agent_name]
KeysOf(d) == [i \in DOMAIN d |-> d[i].key]

\* the votes of the agents named in a list of dissenting opinions
VotesOfDissenters(vs, dissenting) ==
    SelectSeq(vs, LAMBDA v : \E j \in DOMAIN dissenting :
                                 dissenting[j].agent_name = v.agent_name)

\* a result lists the agents as the ledger it was computed from does
C21_ResultOrder ==
    CalcReturned =>
        /\ KeysOf(ret.value.vote_breakdown) = VoteNames(votes)
        /\ KeysOf(ret.value.confidence_scores) = VoteNames(votes)
        /\ \A i \in DOMAIN votes :
               /\ ret.value.vote_breakdown[i].val = votes[i].verdict
               /\ ret.value.confidence_scores[i].val = votes[i].confidence
        /\ VoteNames(ret.value.dissenting_opinions)
               = VoteNames(VotesOfDissenters(votes, ret.value.dissenting_opinions))

\* add_vote puts the voter last and keeps the others in their order
C21_RevoteStep ==
    ret'.op = "add_vote" =>
        /\ votes' # <<>>
        /\ votes'[Len(votes')].agent_name = ret'.value[1]
        /\ VoteNames(SubSeq(votes', 1, Len(votes') - 1))
               = VoteNames(SelectSeq(votes, LAMBDA v : v.agent_name # ret'.value[1]))

\* C21: vote_breakdown, confidence_scores and dissenting_opinions list the
\* agents in ledger order at the time of the call, and the ledger order is
\* that of each agent's latest add_vote: a re-vote moves the agent to the end.
C21_LedgerOrder == []C21_ResultOrder /\ [][C21_RevoteStep]_vars

\* a result on a ledger whose first voter is not the first agent of the
\* roster, with two dissenting opinions
C21_Witness ==
    /\ CalcReturned
    /\ Len(votes) = 3
    /\ votes[1].agent_name = RuleComplianceVerifier
    /\ votes[3].agent_name = SecurityAuditor
    /\ Len(ret.value.dissenting_opinions) = 2
    /\ ret.value.dissenting_opinions[2].agent_name = SecurityAuditor

----------------------------------------------------------------------------
(* quick_review and the reuse of an orchestrator, checked under SpecReuse   *)

\* quick_review has been called and has not returned
QuickRunning == pc = "quick"

\* quick_review has returned its result
QuickReturned == pc = "idle" /\ ret.op = "quick_review"

\* analyze_code called on the first n agents of the roster, in roster order
AnalyzeCalls(n) == [i \in 1..n |-> AgentCall("analyze_code", agents[i], None)]

\* the vote is the one registered from some analysis of the agent
VoteOfAnAnalysis(v, agent_name) ==
    \E analysis \in AgentAnalyses(agent_name) :
        v = AgentVote(agent_name, analysis.verdict, analysis.confidence,
                      AnalysisRationale(analysis))

C22_QuickState ==
    /\ QuickRunning =>
           /\ rounds = 0
           /\ calls = AnalyzeCalls(idx - 1)
           /\ VoteNames(votes) = SubSeq(agents, 1, idx - 1)
    /\ QuickReturned =>
           /\ rounds = 0
           /\ calls = AnalyzeCalls(Len(agents))
           /\ VoteNames(votes) = agents
           /\ \A i \in DOMAIN votes : VoteOfAnAnalysis(votes[i], agents[i])
           /\ ret.value = calculate_consensus(votes, 0, method)
           /\ ret.value.rounds_taken = 0

\* a step of quick_review: its first step empties the ledger and the round
\* counter, and no step touches a transcript, the analyses or the log
C22_QuickStep ==
    /\ (pc = "idle" /\ pc' = "quick") => (votes' = <<>> /\ rounds' = 0)
    /\ (pc = "quick" \/ pc' = "quick") =>
           /\ conversation' = conversation
           /\ log' = log
           /\ analyses' = analyses
           /\ shown' = shown

\* C22: quick_review resets the ledger and the round counter, calls
\* analyze_code once per agent in registration order and never
\* respond_to_discussion, registers one vote per agent from its analysis,
\* appends no message to a transcript, and returns the consensus of those
\* votes with rounds_taken = 0.
C22_QuickReviewFrame == []C22_QuickState /\ [][C22_QuickStep]_vars

\* quick_review returned on an orchestrator whose earlier review_code ran a
\* discussion round and left six messages
C22_Witness ==
    /\ QuickReturned
    /\ log.started
    /\ log.ended
    /\ log.consensus_result.rounds_taken = 1
    /\ Len(conversation) = 6
    /\ Len(votes) = 3

----------------------------------------------------------------------------
(* Purity of the queries, checked under SpecRounds                         *)

\* should_continue() has returned
ContinueReturned == ret.op = "should_continue"

\* what a query returned is fixed by the ledger, the round counter, the
\* policy and, for should_continue, max_rounds, as they stand
C23_QueryState ==
    /\ CalcReturned => ret.value = calculate_consensus(votes, rounds, method)
    /\ ContinueReturned =>
           ret.value = (/\ rounds < max_rounds
                        /\ ~calculate_consensus(votes, rounds, method).consensus_reached)

\* a query changes nothing of the ConsensusManager
C23_QueryStep ==
    ret'.op \in {"calculate_consensus", "should_continue"} =>
        /\ votes' = votes
        /\ rounds' = rounds
        /\ method' = method
        /\ max_rounds' = max_rounds

----------------------------------------------------------------------------
(* reset and the reuse of a ConsensusManager, checked under SpecReset      *)

\* review_code or quick_review stands before its first agent
ReviewStarting == pc = "phase1" /\ idx = 1
QuickStarting == pc = "quick" /\ idx = 1

\* a review starts from an empty ledger, zero rounds and, for review_code,
\* an empty transcript, empty analyses and a new log; what it returns counts
\* the rounds and the messages of this review only
C24_FreshState ==
    /\ ReviewStarting =>
           /\ votes = <<>>
           /\ rounds = 0
           /\ round_num = 0
           /\ conversation = <<>>
           /\ analyses = <<>>
           /\ log = [started |-> TRUE, ended |-> FALSE, messages |-> <<>>,
                     analyses |-> <<>>, consensus_result |-> None]
    /\ QuickStarting => (votes = <<>> /\ rounds = 0)
    /\ pc \in {"phase1", "phase2", "loop"} => rounds = round_num
    /\ Sealed =>
           /\ log.consensus_result = calculate_consensus(votes, round_num, method)
           /\ log.consensus_result.rounds_taken = round_num
           /\ Len(log.messages) = Len(agents) * (1 + round_num)
           /\ log.messages = conversation
    /\ QuickReturned => ret.value.rounds_taken = 0

\* reset() empties the ledger, zeroes the round counter and leaves the policy
\* and max_rounds alone; so does the start of either review
C24_ResetStep ==
    (\/ ret'.op = "reset"
     \/ (pc = "idle" /\ pc' \in {"phase1", "quick"})) =>
        /\ votes' = <<>>
        /\ rounds' = 0
        /\ method' = method
        /\ max_rounds' = max_rounds

\* C24: reset() empties the ledger and sets the round counter to 0, leaving
\* the policy and max_rounds unchanged; review_code and quick_review reset
\* first, so a review on a reused orchestrator starts as on a new one and
\* its result holds nothing of an earlier review.
C24_ResetAndReuse == []C24_FreshState /\ [][C24_ResetStep]_vars

\* quick_review stands before its first agent on an orchestrator whose
\* earlier review_code ended after one round with three votes
C24_Witness ==
    /\ QuickStarting
    /\ votes = <<>>
    /\ rounds = 0
    /\ log.started
    /\ log.ended
    /\ log.consensus_result.rounds_taken = 1
    /\ Len(log.consensus_result.vote_breakdown) = 3

----------------------------------------------------------------------------
(* Two reviews on separate instances, checked under SpecTwo                *)

\* the last verdict agent_name gave in the transcript, None without one
LastVerdict(agent_name, transcript) ==
    LET own == SelectSeq(transcript,
                         LAMBDA m : m.agent_name = agent_name /\ m.verdict # None)
    IN IF own = <<>> THEN None ELSE own[Len(own)].verdict

\* What holds of an orchestrator s that runs one review_code alone: ledger,
\* transcript and result are made of its own agents' turns and of nothing else
RunsAlone(s) ==
    /\ ~s.log.started =>
           s.pc = "idle" /\ s.votes = <<>> /\ s.conversation = <<>> /\ s.rounds = 0
    /\ s.pc = "phase1" =>
           /\ VoteNames(s.votes) = SubSeq(s.agents, 1, s.idx - 1)
           /\ Len(s.conversation) = s.idx - 1
           /\ s.rounds = 0
    /\ s.pc = "phase2" =>
           Len(s.conversation) = Len(s.agents) * s.round_num + s.idx - 1
    /\ s.pc = "loop" =>
           Len(s.conversation) = Len(s.agents) * (1 + s.round_num)
    /\ s.log.started =>
           /\ s.rounds = s.round_num
           /\ s.log.messages = s.conversation
           /\ \A i \in DOMAIN s.conversation :
                  s.conversation[i].agent_name
                      = s.agents[((i - 1) % Len(s.agents)) + 1]
           /\ \A i \in DOMAIN s.votes :
                  /\ \E j \in DOMAIN s.analyses :
                         /\ s.analyses[j].key = s.votes[i].agent_name
                         /\ s.analyses[j].val.confidence = s.votes[i].confidence
                  /\ s.votes[i].verdict
                         = LastVerdict(s.votes[i].agent_name, s.conversation)
    /\ (s.pc = "idle" /\ s.ret.op = "review_code") =>
           /\ s.ret.value = s.log
           /\ s.log.ended
           /\ {s.votes[i].agent_name : i \in DOMAIN s.votes}
                  = {s.agents[i] : i \in DOMAIN s.agents}
           /\ s.log.consensus_result
                  = calculate_consensus(s.votes, s.round_num, s.method)

\* both orchestrators are as if each ran alone
C25_BothAlone == RunsAlone(Here) /\ (peer.made => RunsAlone(peer))

\* a step of one orchestrator leaves the other as it is, and an orchestrator
\* that runs again finds every attribute as it left it
C25_OtherUntouched ==
    peer.made => \/ peer' = peer
                 \/ (peer' = Here /\ Here' = peer)

\* C25: two reviews on separate ConversationOrchestrator and ConsensusManager
\* instances share no state: whatever the interleaving of their steps, each
\* has the ledger, the transcript and the result of a review that runs alone.
C25_SeparateInstances == []C25_BothAlone /\ [][C25_OtherUntouched]_vars

\* the steps of the two reviews are interleaved: one orchestrator is in its
\* discussion round with three votes while the other, under another policy,
\* waits in Phase 1 with one vote
C25_Witness ==
    /\ peer.made
    /\ pc = "phase2"
    /\ idx = 2
    /\ Len(votes) = 3
    /\ Len(conversation) = 4
    /\ peer.pc = "phase1"
    /\ peer.idx = 2
    /\ Len(peer.votes) = 1
    /\ Len(peer.conversation) = 1
    /\ peer.method # method

----------------------------------------------------------------------------
(* The sum of the normalised scores, checked under SpecCM                  *)

\* the weights of the votes of a ledger, in ledger order
VoteWeights(vs) == [i \in DOMAIN vs |-> VoteWeight(vs[i])]

\* The exact value of a quotient a is h/hT + QuotientError(a) * 2^(e-52) / hT:
\* its significand is floor(X) + m for X = (h/hT) * 2^(52-e), whose
\* fractional part is ((h * 2^(52-e)) mod hT) / hT.
QuotientError(a) ==
    IF a.h = 0 THEN 0
    ELSE a.m * a.hT - ((a.h * Pow2Mod(52 - a.e, a.hT)) % a.hT)

\* the smallest binary exponent among the scores
MinExponent(scores) ==
    CHOOSE e \in {scores[k].e : k \in DOMAIN scores} :
        \A k \in DOMAIN scores : e <= scores[k].e

\* (sum of the exact values of the scores - sum of the ratios h/hT), in
\* units of 2^(emin-52) / hT, hT being the hundredths of the total weight
ScoreDeviationAt(scores, emin) ==
    LET d[k \in 0..Len(scores)] ==
            IF k = 0 THEN 0
            ELSE d[k - 1] + QuotientError(scores[k]) * Pow2(scores[k].e - emin)
    IN d[Len(scores)]

ScoreDeviation(scores) ==
    CHOOSE d \in {ScoreDeviationAt(sc, MinExponent(sc)) : sc \in {scores}} : TRUE

Abs(x) == IF x < 0 THEN -x ELSE x

\* the hundredths of the three per-verdict weights add up to those of the
\* total weight: no vote is left out and none is counted twice
WeightsAddUp(vs) ==
    LET w == VoteWeights(vs)
    IN WeightOf(vs, w, APPROVE).h + WeightOf(vs, w, REJECT).h
           + WeightOf(vs, w, NEEDS_DISCUSSION).h = TotalWeight(w).h

\* the weighted policy has been applied to a ledger of positive total weight
PositiveWeightReturned ==
    /\ CalcReturned
    /\ method = WEIGHTED
    /\ votes # <<>>
    /\ FloatGT(TotalWeight(VoteWeights(votes)), FloatZero)

\* The float nearest to the sum of the scores is 1.0: the sum lies between
\* 1 - 2^-54 and 1 + 2^-53, halfway to the floats next to 1.0.
SumRoundsToOne(scores, total_weight) ==
    /\ -(total_weight.h * Pow2(-MinExponent(scores))) <= 4 * ScoreDeviation(scores)
    /\ 4 * ScoreDeviation(scores) <= 2 * total_weight.h * Pow2(-MinExponent(scores))

\* C26 as stated: the three normalised scores sum to 1, as floats do (the
\* float nearest to their sum is 1.0).
C26_ScoresSumToOne ==
    PositiveWeightReturned =>
        /\ WeightsAddUp(votes)
        /\ SumRoundsToOne(WeightedScores(votes), TotalWeight(VoteWeights(votes)))

\* C26: whenever the total weight is positive, every vote is counted under
\* exactly one verdict, the per-verdict weights add up to the total weight,
\* and the three normalised scores sum to 1 within 2^-50, the rounding of
\* the floating-point sums and divisions.
C26_ScoresSumToOneRounded ==
    PositiveWeightReturned =>
        /\ \A i \in DOMAIN votes : votes[i].verdict \in ReviewVerdict
        /\ WeightsAddUp(votes)
        /\ Abs(ScoreDeviation(WeightedScores(votes)))
               <= 4 * TotalWeight(VoteWeights(votes)).h
                        * Pow2(-MinExponent(WeightedScores(votes)))

\* three votes of positive weight for three different verdicts whose scores
\* do not sum to 1.0
C26_Witness ==
    /\ PositiveWeightReturned
    /\ Len(votes) = 3
    /\ {votes[i].verdict : i \in DOMAIN votes} = ReviewVerdict
    /\ \A i \in DOMAIN votes : votes[i].confidence > 0
    /\ ~SumRoundsToOne(WeightedScores(votes), TotalWeight(VoteWeights(votes)))

----------------------------------------------------------------------------
(* ConversationLog.to_dict and to_json, and the reparsed log,              *)
(* checked under Spec                                                      *)

\* The Python values json can write: None, str, bool, a number, a list, a
\* dict with string keys (its members in insertion order)
PyNone == [t |-> "none", v |-> None]
PyStr(s) == [t |-> "str", v |-> s]
PyBool(b) == [t |-> "bool", v |-> b]
PyNum(x) == [t |-> "num", v |-> x]
PyList(items) == [t |-> "list", v |-> items]
PyDict(members) == [t |-> "dict", v |-> members]

Member(key, val) == [key |-> key, val |-> val]

\* [s for s in strings]
StrList(strings) == PyList([i \in DOMAIN strings |-> PyStr(strings[i])])

\* Variant: the verdict of a message is written as str(m.verdict).
MessageVerdict_Str(m) == PyStr(m.verdict)

\* m.verdict.value if m.verdict else None
MessageVerdict(m) == IF m.verdict # None THEN PyStr(m.verdict) ELSE PyNone

\* in_reply_to: an agent name or None, written as it is
MessageReplyTo(m) == IF m.in_reply_to # None THEN PyStr(m.in_reply_to) ELSE PyNone

\* one entry of "messages" (the timestamp is not part of the model)
MessageDict(m) ==
    PyDict(<<Member("agent", PyStr(m.agent_name)),
             Member("content", PyStr(m.content)),
             Member("verdict", MessageVerdict(m)),
             Member("in_reply_to", MessageReplyTo(m))>>)

\* one entry of "analyses"
AnalysisDict(a) ==
    PyDict(<<Member("issues", StrList(a.issues)),
             Member("warnings", StrList(a.warnings)),
             Member("positives", StrList(a.positives)),
             Member("verdict", PyStr(a.verdict)),
             Member("confidence", PyNum(a.confidence))>>)

\* "consensus_result"
ResultDict(r) ==
    PyDict(<<Member("final_verdict", PyStr(r.final_verdict)),
             Member("consensus_reached", PyBool(r.consensus_reached)),
             Member("vote_breakdown",
                    PyDict([i \in DOMAIN r.vote_breakdown |->
                               Member(r.vote_breakdown[i].key,
                                      PyStr(r.vote_breakdown[i].val))])),
             Member("confidence_scores",
                    PyDict([i \in DOMAIN r.confidence_scores |->
                               Member(r.confidence_scores[i].key,
                                      PyNum(r.confidence_scores[i].val))])),
             Member("total_confidence", PyNum(r.total_confidence)),
             Member("rounds_taken", PyNum(r.rounds_taken)),
             Member("dissenting_opinions", StrList(r.dissenting_opinions)),
             Member("summary", PyStr(r.summary))>>)

\* to_dict (code_hash, filename, started_at and ended_at are not part of the
\* model); consensus_result is set when the log is sealed
to_dict(lg) ==
    PyDict(<<Member("messages",
                    PyList([i \in DOMAIN lg.messages |-> MessageDict(lg.messages[i])])),
             Member("analyses",
                    PyDict([i \in DOMAIN lg.analyses |->
                               Member(lg.analyses[i].key,
                                      AnalysisDict(lg.analyses[i].val))])),
             Member("consensus_result",
                    IF lg.ended THEN ResultDict(lg.consensus_result) ELSE PyNone)>>)

\* A JSON text as the sequence of its tokens: punctuation, null, true,
\* false, a string, a number
Token(t, v) == [t |-> t, v |-> v]
Punct(t) == Token(t, None)

\* the token sequences of the items of a list or dict, separated by commas
RECURSIVE Separated(_)
Separated(parts) ==
    IF parts = <<>> THEN <<>>
    ELSE IF Len(parts) = 1 THEN parts[1]
    ELSE parts[1] \o <<Punct(",")>> \o Separated(Tail(parts))

\* json.dumps
RECURSIVE dumps(_)
dumps(x) ==
    CASE x.t = "none" -> <<Punct("null")>>
      [] x.t = "bool" -> <<Punct(IF x.v THEN "true" ELSE "false")>>
      [] x.t = "str" -> <<Token("string", x.v)>>
      [] x.t = "num" -> <<Token("number", x.v)>>
      [] x.t = "list" ->
            <<Punct("[")>> \o Separated([i \in DOMAIN x.v |-> dumps(x.v[i])])
                           \o <<Punct("]")>>
      [] x.t = "dict" ->
            <<Punct("{")>>
                \o Separated([i \in DOMAIN x.v |->
                                 <<Token("string", x.v[i].key), Punct(":")>>
                                     \o dumps(x.v[i].val)])
                \o <<Punct("}")>>

\* to_json
to_json(lg) == dumps(to_dict(lg))

\* json.loads: the value that starts at token i and the position after it
Parsed(val, next) == [val |-> val, next |-> next]

RECURSIVE ParseValue(_, _), ParseItems(_, _, _), ParseMembers(_, _, _)
ParseValue(toks, i) ==
    CASE toks[i].t = "null" -> Parsed(PyNone, i + 1)
      [] toks[i].t = "true" -> Parsed(PyBool(TRUE), i + 1)
      [] toks[i].t = "false" -> Parsed(PyBool(FALSE), i + 1)
      [] toks[i].t = "string" -> Parsed(PyStr(toks[i].v), i + 1)
      [] toks[i].t = "number" -> Parsed(PyNum(toks[i].v), i + 1)
      [] toks[i].t = "[" -> ParseItems(toks, i + 1, <<>>)
      [] toks[i].t = "{" -> ParseMembers(toks, i + 1, <<>>)

\* the items of a list up to its closing bracket (every argument is
\* evaluated once before the call)
ParseItems(toks, i, acc) ==
    IF toks[i].t = "]" THEN Parsed(PyList(acc), i + 1)
    ELSE CHOOSE p \in UNION {{ParseItems(toks, n, a) :
                                  n \in {item.next}, a \in {Append(acc, item.val)}} :
                                 item \in {ParseValue(toks, j) :
                                              j \in {IF toks[i].t = "," THEN i + 1 ELSE i}}} :
             TRUE

\* the members of an object up to its closing brace; a key met again
\* replaces the value of the earlier one
ParseMembers(toks, i, acc) ==
    IF toks[i].t = "}" THEN Parsed(PyDict(acc), i + 1)
    ELSE CHOOSE p \in UNION {{ParseMembers(toks, n, a) :
                                  n \in {m.val.next},
                                  a \in {DictPut(acc, toks[m.key].v, m.val.val)}} :
                                 m \in {Member(k, ParseValue(toks, k + 2)) :
                                            k \in {IF toks[i].t = "," THEN i + 1 ELSE i}}} :
             TRUE

loads(toks) == CHOOSE x \in {ParseValue(t, 1).val : t \in {toks}} : TRUE

\* d[key] of a parsed object
PyGet(d, key) == DictGet(d.v, key)

\* what a reader of the JSON finds for a verdict or a name that may be None
Nullable(x) == IF x # None THEN PyStr(x) ELSE PyNone

\* the parsed log has the messages and the consensus fields of the log lg
RoundTrip(lg, parsed) ==
    /\ Len(PyGet(parsed, "messages").v) = Len(lg.messages)
    /\ \A i \in DOMAIN lg.messages :
           /\ PyGet(PyGet(parsed, "messages").v[i], "agent")
                  = PyStr(lg.messages[i].agent_name)
           /\ PyGet(PyGet(parsed, "messages").v[i], "verdict")
                  = Nullable(lg.messages[i].verdict)
           /\ PyGet(PyGet(parsed, "messages").v[i], "in_reply_to")
                  = Nullable(lg.messages[i].in_reply_to)
    /\ PyGet(PyGet(parsed, "consensus_result"), "final_verdict")
           = PyStr(lg.consensus_result.final_verdict)
    /\ PyGet(PyGet(parsed, "consensus_result"), "consensus_reached")
           = PyBool(lg.consensus_result.consensus_reached)
    /\ PyGet(PyGet(parsed, "consensus_result"), "rounds_taken")
           = PyNum(lg.consensus_result.rounds_taken)
    /\ PyGet(PyGet(parsed, "consensus_result"), "vote_breakdown").v
           = [i \in DOMAIN lg.consensus_result.vote_breakdown |->
                 Member(lg.consensus_result.vote_breakdown[i].key,
                        PyStr(lg.consensus_result.vote_breakdown[i].val))]
    /\ PyGet(PyGet(parsed, "consensus_result"), "dissenting_opinions")
           = StrList(lg.consensus_result.dissenting_opinions)

\* C27: serialising a sealed log with to_dict()/to_json() and reparsing it
\* gives the messages in the order of log.messages, each with its agent, its
\* verdict (null for None) and its in_reply_to, and the consensus fields
\* final_verdict, consensus_reached, vote_breakdown, rounds_taken and
\* dissenting_opinions of the in-memory result.
C27_RoundTrip ==
    Sealed => \A parsed \in {loads(to_json(log))} :
                  /\ parsed = to_dict(log)
                  /\ RoundTrip(log, parsed)

\* a sealed log with a message without verdict, a reply to another agent, a
\* dissenting opinion and one discussion round
C27_Witness ==
    /\ Sealed
    /\ \E i \in DOMAIN log.messages : log.messages[i].verdict = None
    /\ \E i \in DOMAIN log.messages : log.messages[i].in_reply_to # None
    /\ log.consensus_result.dissenting_opinions # <<>>
    /\ log.consensus_result.rounds_taken = 1
    /\ Len(log.messages) = 6

----------------------------------------------------------------------------
(* Approval and consensus, checked under SpecCM                            *)

\* the exit code of the command line for a result:
\* 0 if result.final_verdict.value == "APPROVE" else 1
ExitCode(result) == IF result.final_verdict = APPROVE THEN 0 ELSE 1

\* C28 as stated: for every policy and every ledger calculate_consensus
\* returns final_verdict = Approve only together with consensus_reached =
\* true, so exit code 0 is never given to a review without consensus.
C28_ApproveOnlyWithConsensus ==
    CalcReturned => (ExitCode(ret.value) = 0 => ret.value.consensus_reached)

----------------------------------------------------------------------------
(* Ties of the weighted policy, checked under SpecCM                       *)

\* the weighted policy decided: method weighted, or security_veto without veto
WeightedReturned ==
    /\ CalcReturned
    /\ votes # <<>>
    /\ \/ method = WEIGHTED
       \/ (method = SECURITY_VETO /\ ~VetoCondition(votes))

\* the position of a verdict in the priority Approve, Reject, NeedsDiscussion
Priority(verdict) == CHOOSE k \in DOMAIN VerdictOrder : VerdictOrder[k] = verdict

\* the verdicts whose score no other score exceeds
TopVerdicts(scores) ==
    {VerdictOrder[k] : k \in {i \in DOMAIN VerdictOrder :
                                 \A j \in DOMAIN VerdictOrder :
                                     ~QuotientGT(scores[j], scores[i])}}

\* the final verdict is the top verdict that comes first in the priority
WinnerByPriority(scores, final_verdict) ==
    /\ final_verdict \in TopVerdicts(scores)
    /\ \A v \in TopVerdicts(scores) : Priority(final_verdict) <= Priority(v)

\* C29: in the weighted policy, and in security_veto when it falls through,
\* a tie between top scores goes to the first of Approve, Reject,
\* NeedsDiscussion whatever the order of the ledger; when the total weight is
\* 0 the result is Approve without consensus and with total_confidence 0.
C29_TieByPriority ==
    WeightedReturned =>
        \A scores \in {WeightedScores(votes)} :
            /\ WinnerByPriority(scores, ret.value.final_verdict)
            /\ (\A i \in DOMAIN votes : votes[i].confidence = 0) =>
                   /\ TotalWeight(VoteWeights(votes)) = FloatZero
                   /\ ret.value.final_verdict = APPROVE
                   /\ ~ret.value.consensus_reached
                   /\ ret.value.total_confidence = QuotientZero

\* Approve and NeedsDiscussion tie at the top with a positive weight, the
\* NeedsDiscussion vote standing first in the ledger: the result is Approve
C29_Witness ==
    /\ WeightedReturned
    /\ Len(votes) = 2
    /\ votes[1].verdict = NEEDS_DISCUSSION
    /\ votes[2].verdict = APPROVE
    /\ votes[1].confidence > 0
    /\ TopVerdicts(WeightedScores(votes)) = {APPROVE, NEEDS_DISCUSSION}
    /\ ret.value.final_verdict = APPROVE

\* the total weight is 0: a single Reject of confidence 0 gives Approve
C29_ZeroWeight ==
    /\ WeightedReturned
    /\ \A i \in DOMAIN votes : votes[i].confidence = 0 /\ votes[i].verdict = REJECT
    /\ ret.value.final_verdict = APPROVE

----------------------------------------------------------------------------
(* The order of the ledger, checked under SpecOrder                        *)

\* every ledger that holds the votes of vs in some order
LedgerOrders(vs) ==
    {[i \in DOMAIN vs |-> vs[f[i]]] :
        f \in {g \in [DOMAIN vs -> DOMAIN vs] :
                  \A i, j \in DOMAIN vs : g[i] = g[j] => i = j}}

\* final_verdict and consensus_reached are those of every permutation
SameInEveryOrder(vs, rnds, mth, result) ==
    \A p \in LedgerOrders(vs) :
        \A r \in {calculate_consensus(p, rnds, mth)} :
            /\ r.final_verdict = result.final_verdict
            /\ r.consensus_reached = result.consensus_reached

\* C30 as stated: for each of the four policies every permutation of the
\* ledger gives the same final_verdict and the same consensus_reached.
C30_OrderIndependent ==
    CalcReturned => SameInEveryOrder(votes, rounds, method, ret.value)

\* what holds of majority and unanimous
C30_CountingPolicies ==
    (CalcReturned /\ method \in {MAJORITY, UNANIMOUS}) =>
        SameInEveryOrder(votes, rounds, method, ret.value)

----------------------------------------------------------------------------
(* The dissenting opinions of majority and weighted, checked under SpecCM  *)

\* the number of entries of dissenting_opinions written for an agent
DissentCount(dissenting, agent_name) ==
    Cardinality({j \in DOMAIN dissenting : dissenting[j].agent_name = agent_name})

\* the majority or the weighted policy has been applied to a ledger
CountedReturned ==
    /\ CalcReturned
    /\ votes # <<>>
    /\ method \in {MAJORITY, WEIGHTED}

\* C31: under majority and weighted, dissenting_opinions has exactly one
\* entry for each agent whose verdict differs from final_verdict and none
\* for an agent whose verdict equals it; a majority result without a winner
\* lists every agent that did not vote NeedsDiscussion.
C31_Dissenters ==
    CountedReturned =>
        /\ \A i \in DOMAIN votes :
               DissentCount(ret.value.dissenting_opinions, votes[i].agent_name)
                   = IF votes[i].verdict # ret.value.final_verdict THEN 1 ELSE 0
        /\ \A j \in DOMAIN ret.value.dissenting_opinions :
               \E i \in DOMAIN votes :
                   /\ votes[i].agent_name = ret.value.dissenting_opinions[j].agent_name
                   /\ votes[i].verdict = ret.value.dissenting_opinions[j].verdict
        /\ (method = MAJORITY /\ ~ret.value.consensus_reached) =>
               /\ ret.value.final_verdict = NEEDS_DISCUSSION
               /\ \A i \in DOMAIN votes :
                      votes[i].verdict # NEEDS_DISCUSSION
                          <=> DissentCount(ret.value.dissenting_opinions,
                                           votes[i].agent_name) = 1

\* a majority result without a winner on three votes, one of them
\* NeedsDiscussion: the two others are listed
C31_Witness ==
    /\ CalcReturned
    /\ method = MAJORITY
    /\ Len(votes) = 3
    /\ ~ret.value.consensus_reached
    /\ Cardinality({i \in DOMAIN votes : votes[i].verdict = NEEDS_DISCUSSION}) = 1
    /\ Len(ret.value.dissenting_opinions) = 2

----------------------------------------------------------------------------
(* RuleComplianceVerifier and its rule violations, checked under           *)
(* SpecBuiltin                                                             *)

\* the messages of the transcript written by agent_name
MessagesOf(agent_name) ==
    {i \in DOMAIN conversation : conversation[i].agent_name = agent_name}

\* the votes of the ledger registered for agent_name
VotesOf(agent_name) == {i \in DOMAIN votes : votes[i].agent_name = agent_name}

\* C32: when the analysis of RuleComplianceVerifier lists an issue, its
\* verdict is Reject, every message the agent has written carries Reject,
\* whether the LLM answered, failed or was never asked, and the vote the
\* ledger holds for the agent is Reject in every state of the review.
C32_ViolationsReject ==
    \A e \in DOMAIN analyses :
        (analyses[e].key = RuleComplianceVerifier /\ analyses[e].val.issues # <<>>)
        => /\ analyses[e].val.verdict = REJECT
           /\ \A i \in MessagesOf(RuleComplianceVerifier) : conversation[i].verdict = REJECT
           /\ \A i \in VotesOf(RuleComplianceVerifier) : votes[i].verdict = REJECT

\* the LLM told RuleComplianceVerifier to approve and the SecurityAuditor
\* approves: the reply is the LLM's text, the verdict Reject
C32_Witness ==
    /\ llm_client = FlakyClient
    /\ \E i \in MessagesOf(RuleComplianceVerifier) :
           /\ conversation[i].content = "I agree with the assessment. APPROVE"
           /\ conversation[i].verdict = REJECT
    /\ \E i \in VotesOf(SecurityAuditor) : votes[i].verdict = APPROVE
    /\ \E i \in VotesOf(RuleComplianceVerifier) : votes[i].verdict = REJECT

----------------------------------------------------------------------------
(* The discussion of the rule-based agents, checked under SpecBuiltin      *)

\* the (agent, verdict, confidence) entries of a ledger
LedgerEntries(vs) ==
    [i \in DOMAIN vs |-> <<vs[i].agent_name, vs[i].verdict, vs[i].confidence>>]

\* quick_review has returned after review_code, on the same code
QuickAfterReview == log.started /\ log.ended /\ ret.op = "quick_review"

\* C33: with the default roster and no LLM client every vote of the ledger
\* keeps the verdict and the confidence of its agent's analysis; at every
\* loop test and at the end the entries are those of Phase 1; the sealed
\* result has run 0 or max_rounds rounds; and quick_review on the same code
\* returns the final_verdict, consensus_reached and vote_breakdown of the
\* review.
C33_RuleBasedDiscussion ==
    (agents = DefaultRoster /\ llm_client = None /\ log.started) =>
        /\ \A i \in DOMAIN votes :
               /\ votes[i].verdict = DictGet(analyses, votes[i].agent_name).verdict
               /\ votes[i].confidence = DictGet(analyses, votes[i].agent_name).confidence
        /\ (pc \in {"loop", "idle"}) => LedgerEntries(votes) = LedgerEntries(Phase1Votes)
        /\ log.ended => log.consensus_result.rounds_taken \in {0, max_rounds}
        /\ QuickAfterReview =>
               /\ ret.value.final_verdict = log.consensus_result.final_verdict
               /\ ret.value.consensus_reached = log.consensus_result.consensus_reached
               /\ ret.value.vote_breakdown = log.consensus_result.vote_breakdown

\* a review without consensus ran max_rounds = 2 rounds of rule-based
\* replies, then quick_review returned
C33_Witness ==
    /\ agents = DefaultRoster
    /\ llm_client = None
    /\ max_rounds = 2
    /\ QuickAfterReview
    /\ log.consensus_result.rounds_taken = 2
    /\ Len(log.messages) = 9
    /\ ~ret.value.consensus_reached

----------------------------------------------------------------------------
(* The security veto without an LLM client, checked under SpecBuiltin      *)

\* the ConsensusResult that the last call returned, if it returned one
ResultReturned ==
    IF ret.op = "review_code" THEN ret.value.consensus_result ELSE ret.value

\* C34: with no LLM client the analysis of SecurityAuditor is
\* NeedsDiscussion at confidence 0.5 without issues and none of its messages
\* carries Reject; the veto test fails on the ledger of every state, and
\* under security_veto every result returned by review_code or quick_review
\* is the one the weighted computation gives on that ledger.
C34_NoVetoWithoutClient ==
    (agents = DefaultRoster /\ llm_client = None) =>
        /\ \A e \in DOMAIN analyses :
               analyses[e].key = SecurityAuditor
               => /\ analyses[e].val.verdict = NEEDS_DISCUSSION
                  /\ analyses[e].val.confidence = 5
                  /\ analyses[e].val.issues = <<>>
        /\ \A i \in MessagesOf(SecurityAuditor) : conversation[i].verdict # REJECT
        /\ ~SecurityVetoApplies(votes)
        /\ (method = SECURITY_VETO /\ ret.op \in {"review_code", "quick_review"})
           => ResultReturned = WeightedConsensus(votes, rounds, method, VoteBreakdown(votes),
                                                 ConfidenceScores(votes))

\* under security_veto RuleComplianceVerifier rejects above the veto
\* confidence, the auditor has answered that rejection in a discussion round,
\* and the review has returned
C34_Witness ==
    /\ agents = DefaultRoster
    /\ llm_client = None
    /\ method = SECURITY_VETO
    /\ ret.op = "review_code"
    /\ \E i \in VotesOf(RuleComplianceVerifier) :
           votes[i].verdict = REJECT /\ votes[i].confidence >= VetoConfidence
    /\ \E i \in MessagesOf(SecurityAuditor) :
           /\ conversation[i].in_reply_to = RuleComplianceVerifier
           /\ conversation[i].verdict = NEEDS_DISCUSSION

----------------------------------------------------------------------------
(* The reply chain of the built-in agents, checked under SpecBuiltin       *)

\* review_code is running its rounds or has returned, and the ledger is
\* still the one it left
LedgerOfReview ==
    log.started /\ (pc \in {"phase2", "loop"} \/ (pc = "idle" /\ ret.op = "review_code"))

\* C35: in a review by two or more built-in agents of distinct names every
\* message of Phase 1 has in_reply_to = None; every message of a discussion
\* round has a verdict and names in in_reply_to the author of the message
\* just before it in the transcript; and the last vote of the ledger is the
\* one registered from the last message of the round.
C35_ReplyChain ==
    /\ \A i \in DOMAIN conversation :
           IF i <= Len(agents)
           THEN conversation[i].in_reply_to = None
           ELSE /\ conversation[i].verdict # None
                /\ conversation[i].in_reply_to = conversation[i - 1].agent_name
    /\ (LedgerOfReview /\ Len(conversation) > Len(agents))
       => LET msg == conversation[Len(conversation)]
              vote == votes[Len(votes)]
          IN /\ vote.agent_name = msg.agent_name
             /\ vote.verdict = msg.verdict
             /\ vote.rationale = Prefix(msg.content, RationaleLen)

\* two agents: the SecurityAuditor, second in the roster, has answered the
\* CodeQualityReviewer's message of the same round with the LLM's text
C35_Witness ==
    /\ agents = <<CodeQualityReviewer, SecurityAuditor>>
    /\ llm_client = FlakyClient
    /\ Len(conversation) = 4
    /\ conversation[4].agent_name = SecurityAuditor
    /\ conversation[4].in_reply_to = CodeQualityReviewer
    /\ conversation[4].content = "The decoded payload is unacceptable. REJECT"
    /\ conversation[3].in_reply_to = SecurityAuditor
    /\ votes[Len(votes)].verdict = REJECT

----------------------------------------------------------------------------
(* The audit log and the working transcript, checked under SpecReuse       *)

\* review_code is between its first statement and its return
InReviewCode ==
    log.started /\ (pc \in {"phase1", "phase2", "loop"} \/ ret.op = "review_code")

\* C36: at every point of review_code, on a new orchestrator or on one that
\* has run other reviews, log.messages and self.conversation hold the same
\* messages in the same order, and the round number of the loop equals the
\* round counter of the ConsensusManager.
C36_LogIsTranscript ==
    InReviewCode => (log.messages = conversation /\ round_num = rounds)

\* the first agent has replied in the discussion round of a review
C36_Witness ==
    /\ pc = "phase2"
    /\ idx = 2
    /\ round_num = 1
    /\ rounds = 1
    /\ Len(log.messages) = Len(agents) + 1
    /\ log.messages = conversation

----------------------------------------------------------------------------
(* term_sdk.decorators.with_retry (sdk/python/term_sdk/decorators.py).  A  *)
(* decorated function is called; the wrapper invokes func, sleeps and      *)
(* invokes it again.  Delays are whole seconds.                            *)

\* the variables of the review, which the SDK does not touch
reviewVars == <<method, max_rounds, votes, rounds, ret, agents, conversation, analyses,
                log, pc, idx, round_num, shown, llm_client, calls, peer>>

\* no review is in progress
NoReview ==
    /\ method = SECURITY_VETO
    /\ max_rounds = DefaultMaxRounds
    /\ votes = <<>>
    /\ rounds = 0
    /\ ret = Returned("__init__", None)
    /\ agents = DefaultRoster
    /\ conversation = <<>>
    /\ analyses = <<>>
    /\ log = NoLog
    /\ pc = "idle"
    /\ idx = 0
    /\ round_num = 0
    /\ shown = <<>>
    /\ llm_client = None
    /\ calls = <<>>
    /\ peer = NoPeer

\* the largest max_attempts a function is decorated with
MaxAttempts == 3

\* the delay arguments, in seconds
Delays == {1, 2}

\* the backoff arguments
Backoffs == {1, 2, 3}

\* func returned value
Success(value) == [kind |-> "return", value |-> value]

\* func raised an exception: the object raised by the k-th invocation, of a
\* type that is or is not in `exceptions`
Failure(listed, k) == [kind |-> "raise", listed |-> listed, id |-> k]

\* what the k-th invocation of func may do
FuncOutcomes(k) == {Success("first"), Success("second"), Failure(TRUE, k), Failure(FALSE, k)}

\* Variant: the wrapper sleeps after every failed attempt.
ShouldSleep_Always(attempt, max_attempts) == TRUE

\* `if attempt < max_attempts - 1`
ShouldSleep(attempt, max_attempts) == attempt < max_attempts - 1

\* `current_delay *= backoff`
NextDelay(current_delay, backoff) == current_delay * backoff

\* the end of one turn of `for attempt in range(max_attempts)`: the next
\* turn, or `raise last_exception` after the last
EndOfAttempt(w) ==
    IF w.attempt + 1 < w.max_attempts
    THEN [w EXCEPT !.attempt = @ + 1, !.pc = "try"]
    ELSE [w EXCEPT !.pc = "raised", !.outcome = w.last_exception]

\* @with_retry(max_attempts, delay, backoff, exceptions) on a function
InitRetry ==
    /\ NoReview
    /\ harness = NoHarness
    /\ \E n \in 1..MaxAttempts, d \in Delays, b \in Backoffs :
           wrapper = [pc |-> "idle", max_attempts |-> n, delay |-> d, backoff |-> b,
                      attempt |-> 0, current_delay |-> d, last_exception |-> None,
                      results |-> <<>>, sleeps |-> <<>>, outcome |-> None]

\* the decorated function is called: the locals of the wrapper
WrapperCall ==
    /\ wrapper.pc \in {"idle", "returned", "raised"}
    /\ wrapper' = [wrapper EXCEPT !.pc = "try", !.attempt = 0,
                                  !.current_delay = wrapper.delay,
                                  !.last_exception = None, !.results = <<>>,
                                  !.sleeps = <<>>, !.outcome = None]
    /\ UNCHANGED <<reviewVars, harness>>

\* one invocation of func inside try/except: its value is returned, an
\* exception of another type propagates, a listed exception is kept and the
\* wrapper goes to sleep or ends the turn
Attempt ==
    /\ wrapper.pc = "try"
    /\ \E r \in FuncOutcomes(Len(wrapper.results) + 1) :
         LET w == [wrapper EXCEPT !.results = Append(@, r)]
         IN wrapper' =
              IF r.kind = "return" \/ ~r.listed
              THEN [w EXCEPT !.pc = IF r.kind = "return" THEN "returned" ELSE "raised",
                             !.outcome = r]
              ELSE IF ShouldSleep(w.attempt, w.max_attempts)
              THEN [w EXCEPT !.last_exception = r, !.pc = "sleep"]
              ELSE EndOfAttempt([w EXCEPT !.last_exception = r])
    /\ UNCHANGED <<reviewVars, harness>>

\* time.sleep(current_delay) / await asyncio.sleep(current_delay) returns
Sleep ==
    /\ wrapper.pc = "sleep"
    /\ wrapper' = EndOfAttempt([wrapper EXCEPT
                                    !.sleeps = Append(@, wrapper.current_delay),
                                    !.current_delay = NextDelay(@, wrapper.backoff)])
    /\ UNCHANGED <<reviewVars, harness>>

NextRetry ==
    \/ WrapperCall
    \/ Attempt
    \/ Sleep

SpecRetry == InitRetry /\ [][NextRetry]_vars

----------------------------------------------------------------------------
(* The retry wrapper, checked under SpecRetry                              *)

\* the invocation was a failure with an exception of a listed type
ListedFailure(r) == r.kind = "raise" /\ r.listed

\* the call of the wrapper has ended
WrapperEnded == wrapper.pc \in {"returned", "raised"}

\* C37: in one call of a function decorated with max_attempts = n >= 1, func
\* is invoked at most n times and only after listed failures of all earlier
\* invocations; a returned value is the value of the last invocation, the
\* first that succeeded; n listed failures end the call with the exception
\* of the n-th; a sleep follows a failed attempt only when another attempt
\* comes, so that there are at most n - 1 sleeps; the first delay is `delay`
\* and each further one is backoff times the one before.
C37_RetryBounds ==
    wrapper.pc # "idle" =>
      LET n == wrapper.max_attempts
          results == wrapper.results
          sleeps == wrapper.sleeps
      IN /\ Len(results) <= n
         /\ \A k \in 1..(Len(results) - 1) : ListedFailure(results[k])
         /\ wrapper.pc = "returned" =>
                /\ results[Len(results)].kind = "return"
                /\ wrapper.outcome = results[Len(results)]
         /\ (Len(results) = n /\ ListedFailure(results[n])) =>
                wrapper.pc = "raised" /\ wrapper.outcome = results[n]
         /\ (wrapper.pc = "raised" /\ ListedFailure(wrapper.outcome)) => Len(results) = n
         /\ Len(sleeps) <= n - 1
         /\ Len(sleeps) = IF wrapper.pc = "try" THEN Len(results)
                          ELSE Len(results) - 1
         /\ \A k \in DOMAIN sleeps :
                sleeps[k] = IF k = 1 THEN wrapper.delay ELSE wrapper.backoff * sleeps[k - 1]

\* three listed failures with delay 2 and backoff 3: two sleeps of 2 and 6
\* seconds, then the third exception is raised
C37_Witness ==
    /\ wrapper.pc = "raised"
    /\ wrapper.max_attempts = 3
    /\ wrapper.sleeps = <<2, 6>>
    /\ wrapper.outcome = Failure(TRUE, 3)

----------------------------------------------------------------------------
(* term_sdk.harness.Harness (sdk/python/term_sdk/harness.py): run() reads  *)
(* request lines from stdin, calls the agent and prints one JSON line per  *)
(* response.  A line of stdin is kept as what the loop makes of it; a line *)
(* of stdout as the number of the input line it answers, whether it is an  *)
(* error response, and its task_complete flag.                             *)

\* the longest input
MaxLines == 3

\* a line of stdin: empty after strip(); not JSON; JSON that is no object,
\* on which from_dict raises AttributeError; the JSON object of a request
LineKinds == {"blank", "invalid", "value", "request"}

\* the inputs
Inputs == UNION {[1..n -> LineKinds] : n \in 0..MaxLines}

\* AgentResponse(...); `serialisable` tells whether to_dict() and
\* json.dumps() accept it
AgentResponse(is_error, task_complete, serialisable) ==
    [kind |-> "return", is_error |-> is_error, task_complete |-> task_complete,
     serialisable |-> serialisable]

\* AgentResponse.error(message)
ErrorResponse == AgentResponse(TRUE, FALSE, TRUE)

\* a call raised: an Exception, or a BaseException that is no Exception
\* (KeyboardInterrupt, SystemExit, asyncio.CancelledError)
Raised(class) == [kind |-> "raise", class |-> class]

\* what agent.step(...) may do
StepOutcomes ==
    {AgentResponse(FALSE, tc, ok) : tc \in BOOLEAN, ok \in BOOLEAN}
    \cup {Raised("Exception"), Raised("BaseException")}

\* what agent.setup() and agent.cleanup() may do
HookOutcomes == {[kind |-> "return"], Raised("Exception"), Raised("BaseException")}

\* a call of a method of the agent: during which input line, and what it did
AgentMethod(op, line, result) == [op |-> op, line |-> line, result |-> result]

\* a line of stdout
Written(line, is_error, task_complete) ==
    [line |-> line, is_error |-> is_error, task_complete |-> task_complete]

\* _send_response(response) for input line i: the JSON of the response, or
\* the minimal error object when the response cannot be serialised
send_response(out, i, response) ==
    Append(out, IF response.serialisable
                THEN Written(i, response.is_error, response.task_complete)
                ELSE Written(i, TRUE, FALSE))

\* Variant: no line counts as blank.
IsBlank_Never(line) == FALSE

\* `line = line.strip()`, `if not line`
IsBlank(line) == line = "blank"

\* _process_request(line), step being what agent.step does if it is called
process_request(line, step) ==
    IF line = "invalid" THEN ErrorResponse
    ELSE IF line = "value" THEN Raised("Exception")
    ELSE step

\* Harness(agent)
InitHarness ==
    /\ NoReview
    /\ wrapper = NoWrapper
    /\ \E input \in Inputs :
           harness = [pc |-> "new", running |-> FALSE, stdin |-> input, pos |-> 0,
                      stdout |-> <<>>, agent_calls |-> <<>>, setup |-> None,
                      stopped_at |-> -1, aborted |-> None]

\* run() up to the call of setup
Run ==
    /\ harness.pc = "new"
    /\ harness' = [harness EXCEPT !.pc = "setup", !.running = TRUE]
    /\ UNCHANGED <<reviewVars, wrapper>>

\* stop(), called by the agent, a signal handler or another thread while
\* run() is under way
Stop ==
    /\ harness.pc \in {"setup", "loop"}
    /\ harness.running
    /\ harness' = [harness EXCEPT !.running = FALSE, !.stopped_at = harness.pos]
    /\ UNCHANGED <<reviewVars, wrapper>>

\* agent.setup() and what _run_async does with its result
Setup ==
    /\ harness.pc = "setup"
    /\ \E r \in HookOutcomes :
         LET h == [harness EXCEPT !.agent_calls = Append(@, AgentMethod("setup", 0, r))]
         IN harness' =
              IF r.kind = "return" THEN [h EXCEPT !.pc = "loop", !.setup = "ok"]
              ELSE IF r.class = "Exception"
              THEN [h EXCEPT !.pc = "done", !.setup = "Exception",
                             !.stdout = send_response(@, 0, ErrorResponse)]
              ELSE [h EXCEPT !.pc = "done", !.setup = "BaseException",
                             !.aborted = "setup"]
    /\ UNCHANGED <<reviewVars, wrapper>>

\* `for line in sys.stdin` at the end of the input
EndOfInput ==
    /\ harness.pc = "loop"
    /\ harness.pos = Len(harness.stdin)
    /\ harness' = [harness EXCEPT !.pc = "cleanup"]
    /\ UNCHANGED <<reviewVars, wrapper>>

\* one turn of _process_loop on the next line
ProcessLine ==
    /\ harness.pc = "loop"
    /\ harness.pos < Len(harness.stdin)
    /\ \E step \in StepOutcomes :
         LET i == harness.pos + 1
             line == harness.stdin[i]
             h == [harness EXCEPT !.pos = i]
             called == [h EXCEPT !.agent_calls =
                                     IF line = "request"
                                     THEN Append(@, AgentMethod("step", i, step)) ELSE @]
             r == process_request(line, step)
         IN harness' =
              IF ~harness.running THEN [h EXCEPT !.pc = "cleanup"]
              ELSE IF IsBlank(line) THEN h
              ELSE IF r.kind = "return"
              THEN [called EXCEPT !.stdout = send_response(@, i, r)]
              ELSE IF r.class = "Exception"
              THEN [called EXCEPT !.stdout = send_response(@, i, ErrorResponse)]
              ELSE [called EXCEPT !.pc = "cleanup", !.aborted = "step"]
    /\ UNCHANGED <<reviewVars, wrapper>>

\* the finally clause: agent.cleanup(), an Exception of which is logged
Cleanup ==
    /\ harness.pc = "cleanup"
    /\ \E r \in HookOutcomes :
           harness' = [harness EXCEPT !.pc = "done",
                                      !.agent_calls = Append(@, AgentMethod("cleanup", 0, r)),
                                      !.aborted = IF @ = None /\ r = Raised("BaseException")
                                                  THEN "cleanup" ELSE @]
    /\ UNCHANGED <<reviewVars, wrapper>>

NextHarness ==
    \/ Run
    \/ Stop
    \/ Setup
    \/ EndOfInput
    \/ ProcessLine
    \/ Cleanup

SpecHarness == InitHarness /\ [][NextHarness]_vars

----------------------------------------------------------------------------
(* The request loop of the Harness, checked under SpecHarness              *)

\* the numbers of the lines among the first `upto` of the input that are not
\* empty after strip(), in input order
NonBlank(input, upto) ==
    SelectSeq([i \in 1..upto |-> i], LAMBDA i : input[i] # "blank")

\* the numbers of the input lines answered on stdout, in output order
AnsweredLines == [k \in DOMAIN harness.stdout |-> harness.stdout[k].line]

\* the calls of agent.op made so far
MethodCalls(op) == SelectSeq(harness.agent_calls, LAMBDA c : c.op = op)

\* the error response to input line i has been written
ErrorWritten(i) == \E k \in DOMAIN harness.stdout : harness.stdout[k] = Written(i, TRUE, FALSE)

\* what the loop writes for a line that is no request or whose step raises
ErrorsAnswered ==
    /\ \A k \in DOMAIN harness.stdout :
           harness.stdin[harness.stdout[k].line] \in {"invalid", "value"}
           => harness.stdout[k] = Written(harness.stdout[k].line, TRUE, FALSE)
    /\ \A c \in DOMAIN harness.agent_calls :
           (harness.agent_calls[c].op = "step"
            /\ harness.agent_calls[c].result = Raised("Exception"))
           => ErrorWritten(harness.agent_calls[c].line)

\* cleanup is called once, when the loop has ended, and is the last call
CleanupOnce ==
    /\ Len(MethodCalls("cleanup")) <= 1
    /\ Len(MethodCalls("cleanup")) = 1 <=> harness.pc = "done"
    /\ harness.pc = "done" =>
           harness.agent_calls[Len(harness.agent_calls)].op = "cleanup"

\* setup raised: one error response, no step, no cleanup
SetupFailed ==
    /\ harness.pc = "done"
    /\ harness.stdout = <<Written(0, TRUE, FALSE)>>
    /\ Len(harness.agent_calls) = 1

\* The loop as stated without stop() and without exceptions outside
\* Exception: once run() has ended, one response for every line that is not
\* blank, an error response for every step that raised, one error response
\* whenever setup raised.
C38_OneResponsePerLine ==
    /\ harness.setup = "ok" =>
           /\ harness.pc = "done" =>
                  AnsweredLines = NonBlank(harness.stdin, Len(harness.stdin))
           /\ ErrorsAnswered
           /\ \A c \in DOMAIN harness.agent_calls :
                  (harness.agent_calls[c].op = "step"
                   /\ harness.agent_calls[c].result.kind = "raise")
                  => ErrorWritten(harness.agent_calls[c].line)
           /\ CleanupOnce
    /\ harness.setup \in {"Exception", "BaseException"} => SetupFailed

\* the last input line whose response the loop has written or owes
LastAnswered ==
    IF harness.stopped_at >= 0 THEN harness.stopped_at
    ELSE IF harness.aborted = "step" THEN harness.pos - 1
    ELSE harness.pos

\* C38: when setup succeeds the responses written are, in input order, one
\* for every non-blank line read before stop() was called and before a step
\* raised outside Exception, and the loop reads the whole input unless one
\* of the two happens; a line that is no request and a step that raises an
\* Exception get an error response with task_complete = false; cleanup is
\* called exactly once, after the loop.  When setup raises an Exception one
\* error response is written and neither step nor cleanup is called.
C38_RequestLoop ==
    /\ harness.setup = "ok" =>
           /\ AnsweredLines = NonBlank(harness.stdin, LastAnswered)
           /\ (harness.pc \in {"cleanup", "done"} /\ harness.stopped_at < 0
               /\ harness.aborted # "step") => harness.pos = Len(harness.stdin)
           /\ ErrorsAnswered
           /\ CleanupOnce
    /\ harness.setup = "Exception" => SetupFailed

\* a step raised an Exception on the first line, the second line is blank,
\* the step of the third returned task_complete = true, cleanup has run
C38_Witness ==
    /\ harness.pc = "done"
    /\ harness.stdin = <<"request", "blank", "request">>
    /\ Len(harness.agent_calls) = 4
    /\ harness.agent_calls[2] = AgentMethod("step", 1, Raised("Exception"))
    /\ harness.stdout = <<Written(1, TRUE, FALSE), Written(3, FALSE, TRUE)>>
    /\ harness.stopped_at < 0
====
